---- MODULE Spec2Model ----
(***************************************************************************)
(* Screening state machine of excludr: articles, the screening decision    *)
(* log, human decision recording, AI screening (single and batch), the     *)
(* "next article" query and the run-ai eligibility query.                  *)
(*                                                                         *)
(* Spec      : the handlers a reviewer drives on one project.              *)
(* SpecAI    : the same with criteria updates and AI screening, single and *)
(*             batch.                                                      *)
(* SpecConc  : the create-decision handler split at its two commits, so    *)
(*             that several requests interleave and a request may fail     *)
(*             between the commits.                                        *)
(* SpecBatch : batch AI screening of several articles, with the messages   *)
(*             broadcast to the project room; the task is scheduled fairly.*)
(* SpecQueue : decisions, the "next article" query and the statistics on   *)
(*             several articles spread over the projects.                  *)
(* SpecStats : title/abstract verdicts on several articles and the         *)
(*             screening statistics.                                       *)
(* SpecAccess: screening requests of any user for any project and article, *)
(*             those that do not exist included.                           *)
(* SpecCriteria: criteria created, updated, reordered and deleted while    *)
(*             screening goes on.                                          *)
(* SpecImport: RIS and PubMed files imported into the projects, before     *)
(*             and after screening has started.                            *)
(* SpecWebSocket: the connection manager under the WebSocket endpoint,     *)
(*             with several connections of one user.                       *)
(***************************************************************************)
EXTENDS Integers, Sequences, FiniteSets, TLC

VARIABLES articles, decisions, criteria, batches, now, lastOp, reqs, events,
          manager, sockets

vars == <<articles, decisions, criteria, batches, now, lastOp, reqs, events,
          manager, sockets>>

----------------------------------------------------------------------------
(* Bounds of the model *)

NumArticles == 1
MaxDecisions == 2
MaxAiChecks == 2
MaxBatches == 1
NumCriteria == 1
NumReqs == 2
NumProjects == 2
NumUsers == 2
MaxCriteria == 2
MaxOrder == 1
NumIdentifiers == 2
MaxArticles == 2
MaxFileLen == 1
PopulationSize == 2
StatsPopulation == 3
MaxSockets == 3

ArticleIds == 1..NumArticles
CriterionIds == 1..NumCriteria
Reqs == 1..NumReqs
Projects == 1..NumProjects
Users == 1..NumUsers

----------------------------------------------------------------------------
(* Enumerations and defaults of the data model *)

ArticleStatus ==
    {"imported", "screening", "awaiting_full_text", "full_text_retrieved",
     "included", "excluded"}

ScreeningStage == {"title_abstract", "full_text", "completed"}

FinalDecision == {"pending", "included", "excluded"}

ScreeningDecisionType == {"include", "exclude", "uncertain"}

DecisionSource == {"ai_agent", "human"}

CriterionType == {"inclusion", "exclusion"}

\* a row of the criterion table
Criterion(project_id, type, order, is_active) ==
    [project_id |-> project_id, type |-> type, order |-> order,
     is_active |-> is_active]

\* reviewer_id = None
NoReviewer == 0

\* id of the authenticated user (the project owner)
CurrentUserId == 1

\* Project.owner_id: every project belongs to the same user, the other
\* users own none
owner_id(project_id) == CurrentUserId

\* messages of the exceptions the evaluator can raise
EvaluatorErrors == {"timeout", "rate_limit"}

NoResult == [kind |-> "none", value |-> ""]

\* doi = None, pmid = None
NoIdentifier == 0

\* the DOIs and the PMIDs of the records
Identifiers == 1..NumIdentifiers

\* Article as created by the import: model defaults
Article ==
    [project_id |-> 1,
     doi |-> NoIdentifier,
     pmid |-> NoIdentifier,
     status |-> "imported",
     current_stage |-> "title_abstract",
     final_decision |-> "pending",
     full_text_retrieved |-> FALSE,
     ai_check_status |-> "pending",
     ai_check_result |-> NoResult,
     last_ai_check |-> 0]

\* ScreeningDecision row
ScreeningDecision(article_id, reviewer_id, stage, decision, source) ==
    [article_id |-> article_id,
     reviewer_id |-> reviewer_id,
     stage |-> stage,
     decision |-> decision,
     source |-> source]

\* ScreeningDecisionCreate payloads of the create-decision endpoint
ScreeningDecisionCreate ==
    [stage : ScreeningStage, decision : ScreeningDecisionType,
     source : DecisionSource]

Core(a) == <<a.status, a.current_stage, a.final_decision>>

Last(s) == s[Len(s)]

----------------------------------------------------------------------------
(* ArticleService *)

\* update_article_status_from_decision with a fault: the full_text include
\* branch leaves final_decision alone, as the title_abstract one does
update_article_status_from_decision_ft_no_final(article, stage, decision) ==
    IF stage = "title_abstract"
    THEN IF decision = "include"
         THEN [article EXCEPT !.status = "awaiting_full_text",
                              !.current_stage = "full_text"]
         ELSE IF decision = "exclude"
         THEN [article EXCEPT !.status = "excluded",
                              !.final_decision = "excluded",
                              !.current_stage = "completed"]
         ELSE article
    ELSE IF stage = "full_text"
    THEN IF decision = "include"
         THEN [article EXCEPT !.status = "included",
                              !.current_stage = "completed"]
         ELSE IF decision = "exclude"
         THEN [article EXCEPT !.status = "excluded",
                              !.final_decision = "excluded",
                              !.current_stage = "completed"]
         ELSE article
    ELSE article

\* update_article_status_from_decision with a fault: every decision that is
\* not an include is handled as an exclude
update_article_status_from_decision_else_exclude(article, stage, decision) ==
    IF stage = "title_abstract"
    THEN IF decision = "include"
         THEN [article EXCEPT !.status = "awaiting_full_text",
                              !.current_stage = "full_text"]
         ELSE [article EXCEPT !.status = "excluded",
                              !.final_decision = "excluded",
                              !.current_stage = "completed"]
    ELSE IF stage = "full_text"
    THEN IF decision = "include"
         THEN [article EXCEPT !.status = "included",
                              !.final_decision = "included",
                              !.current_stage = "completed"]
         ELSE [article EXCEPT !.status = "excluded",
                              !.final_decision = "excluded",
                              !.current_stage = "completed"]
    ELSE article

update_article_status_from_decision(article, stage, decision) ==
    IF stage = "title_abstract"
    THEN IF decision = "include"
         THEN [article EXCEPT !.status = "awaiting_full_text",
                              !.current_stage = "full_text"]
         ELSE IF decision = "exclude"
         THEN [article EXCEPT !.status = "excluded",
                              !.final_decision = "excluded",
                              !.current_stage = "completed"]
         ELSE article
    ELSE IF stage = "full_text"
    THEN IF decision = "include"
         THEN [article EXCEPT !.status = "included",
                              !.final_decision = "included",
                              !.current_stage = "completed"]
         ELSE IF decision = "exclude"
         THEN [article EXCEPT !.status = "excluded",
                              !.final_decision = "excluded",
                              !.current_stage = "completed"]
         ELSE article
    ELSE article

\* set_full_text_retrieved with a fault: the status is left as it was
set_full_text_retrieved_flag_only(article) ==
    [article EXCEPT !.full_text_retrieved = TRUE]

set_full_text_retrieved(article) ==
    [article EXCEPT !.full_text_retrieved = TRUE,
                    !.status = "full_text_retrieved"]

\* the articles start_screening selects, with a fault: no project filter
ImportedArticles_any_project(arts, project_id) ==
    {a \in DOMAIN arts : arts[a].status = "imported"}

\* the articles start_screening selects
ImportedArticles(arts, project_id) ==
    {a \in DOMAIN arts :
        /\ arts[a].project_id = project_id
        /\ arts[a].status = "imported"}

start_screening_update(arts, project_id) ==
    [a \in DOMAIN arts |->
        IF a \in ImportedArticles(arts, project_id)
        THEN [arts[a] EXCEPT !.status = "screening"]
        ELSE arts[a]]

----------------------------------------------------------------------------
(* ScreeningService *)

\* ScreeningService.create_decision with a fault: a decision of an article
\* at a stage that already has one overwrites the earlier row
ss_create_decision_upsert(log, article_id, data, reviewer_id) ==
    LET row == ScreeningDecision(article_id, reviewer_id, data.stage,
                                 data.decision, data.source)
        same == {i \in 1..Len(log) :
                    /\ log[i].article_id = article_id
                    /\ log[i].stage = data.stage}
    IN  IF same = {}
        THEN Append(log, row)
        ELSE [log EXCEPT ![CHOOSE i \in same : TRUE] = row]

\* ScreeningService.create_decision with a fault: the reviewer is not stored
ss_create_decision_anonymous(log, article_id, data, reviewer_id) ==
    Append(log, ScreeningDecision(article_id, NoReviewer, data.stage,
                                  data.decision, data.source))

\* ScreeningService.create_decision: insert one row, commit
ss_create_decision(log, article_id, data, reviewer_id) ==
    Append(log, ScreeningDecision(article_id, reviewer_id, data.stage,
                                  data.decision, data.source))

\* screened_article_ids with a fault: uncertain decisions do not count as
\* screening
screened_article_ids_decided(log, stage) ==
    {log[i].article_id :
        i \in {j \in 1..Len(log) :
                  log[j].stage = stage /\ log[j].decision # "uncertain"}}

screened_article_ids(log, stage) ==
    {log[i].article_id : i \in {j \in 1..Len(log) : log[j].stage = stage}}

target_status(stage) ==
    IF stage = "title_abstract" THEN "screening" ELSE "full_text_retrieved"

\* the WHERE clause with a fault: no project filter
NextCandidates_any_project(arts, log, project_id, stage) ==
    {a \in DOMAIN arts :
        /\ arts[a].status = target_status(stage)
        /\ a \notin screened_article_ids(log, stage)}

\* the rows the query of get_next_article_for_screening selects
NextCandidates(arts, log, project_id, stage) ==
    {a \in DOMAIN arts :
        /\ arts[a].project_id = project_id
        /\ arts[a].status = target_status(stage)
        /\ a \notin screened_article_ids(log, stage)}

\* get_next_article_for_screening with a fault: ORDER BY id DESC
get_next_article_for_screening_desc(arts, log, project_id, stage) ==
    IF NextCandidates(arts, log, project_id, stage) = {}
    THEN 0
    ELSE CHOOSE a \in NextCandidates(arts, log, project_id, stage) :
            \A b \in NextCandidates(arts, log, project_id, stage) : a >= b

\* 0 stands for None
get_next_article_for_screening(arts, log, project_id, stage) ==
    IF NextCandidates(arts, log, project_id, stage) = {}
    THEN 0
    ELSE CHOOSE a \in NextCandidates(arts, log, project_id, stage) :
            \A b \in NextCandidates(arts, log, project_id, stage) : a <= b

\* SELECT status, count(id) ... WHERE project_id = :p GROUP BY status: one
\* row for every status that occurs in the project
status_counts(arts, project_id) ==
    LET n(st) == Cardinality({a \in DOMAIN arts :
                                 /\ arts[a].project_id = project_id
                                 /\ arts[a].status = st})
    IN  [st \in {x \in ArticleStatus : n(x) > 0} |-> n(st)]

\* SELECT current_stage, count(id) ... GROUP BY current_stage
stage_counts(arts, project_id) ==
    LET n(sg) == Cardinality({a \in DOMAIN arts :
                                 /\ arts[a].project_id = project_id
                                 /\ arts[a].current_stage = sg})
    IN  [sg \in {x \in ScreeningStage : n(x) > 0} |-> n(sg)]

\* the value the loop over status_counts leaves in a counter of ScreeningStats
\* (defaults are 0)
counter(counts, st) == IF st \in DOMAIN counts THEN counts[st] ELSE 0

\* count(distinct article_id) with a fault: the rows are counted
screened_count_rows(arts, log, project_id, stage) ==
    Cardinality({i \in 1..Len(log) :
                    /\ log[i].article_id \in DOMAIN arts
                    /\ arts[log[i].article_id].project_id = project_id
                    /\ log[i].stage = stage})

\* count(distinct ScreeningDecision.article_id) of the decisions of a stage
\* joined with the articles of the project
screened_count(arts, log, project_id, stage) ==
    Cardinality({log[i].article_id :
                    i \in {j \in 1..Len(log) :
                              /\ log[j].article_id \in DOMAIN arts
                              /\ arts[log[j].article_id].project_id = project_id
                              /\ log[j].stage = stage}})

\* ScreeningService.get_screening_stats with a fault: the loop assigns the
\* count of status excluded to included and the count of included to excluded
ss_get_screening_stats_swapped(arts, log, project_id) ==
    LET counts == status_counts(arts, project_id)
    IN  [total_articles |->
             Cardinality({a \in DOMAIN arts :
                             arts[a].project_id = project_id}),
         screened_title_abstract |->
             screened_count(arts, log, project_id, "title_abstract"),
         screened_full_text |->
             screened_count(arts, log, project_id, "full_text"),
         included |-> counter(counts, "excluded"),
         excluded |-> counter(counts, "included"),
         uncertain |-> 0,
         awaiting_screening |-> counter(counts, "screening"),
         awaiting_full_text |-> counter(counts, "awaiting_full_text")]

\* get_screening_stats with a fault: uncertain counts the uncertain
\* decisions of the project
ss_get_screening_stats_uncertain(arts, log, project_id) ==
    LET counts == status_counts(arts, project_id)
    IN  [total_articles |->
             Cardinality({a \in DOMAIN arts :
                             arts[a].project_id = project_id}),
         screened_title_abstract |->
             screened_count(arts, log, project_id, "title_abstract"),
         screened_full_text |->
             screened_count(arts, log, project_id, "full_text"),
         included |-> counter(counts, "included"),
         excluded |-> counter(counts, "excluded"),
         uncertain |->
             Cardinality({i \in 1..Len(log) :
                             /\ log[i].decision = "uncertain"
                             /\ arts[log[i].article_id].project_id
                                    = project_id}),
         awaiting_screening |-> counter(counts, "screening"),
         awaiting_full_text |-> counter(counts, "awaiting_full_text")]

\* ScreeningService.get_screening_stats
ss_get_screening_stats(arts, log, project_id) ==
    LET counts == status_counts(arts, project_id)
    IN  [total_articles |->
             Cardinality({a \in DOMAIN arts :
                             arts[a].project_id = project_id}),
         screened_title_abstract |->
             screened_count(arts, log, project_id, "title_abstract"),
         screened_full_text |->
             screened_count(arts, log, project_id, "full_text"),
         included |-> counter(counts, "included"),
         excluded |-> counter(counts, "excluded"),
         uncertain |-> 0,
         awaiting_screening |-> counter(counts, "screening"),
         awaiting_full_text |-> counter(counts, "awaiting_full_text")]

----------------------------------------------------------------------------
(* Import of bibliographic records (projects/flows.py).  A record of a     *)
(* file is reduced to its identifiers and to whether it has a title; the   *)
(* other tags of a record fill descriptive fields only.                    *)

Entry ==
    [pmid : Identifiers \cup {NoIdentifier},
     doi : Identifiers \cup {NoIdentifier},
     title : BOOLEAN]

Files == UNION {[1..n -> Entry] : n \in 0..MaxFileLen}

LargestOf(S) == CHOOSE x \in S : \A y \in S : y <= x

\* the primary key of an inserted article
next_article_id(arts) ==
    IF DOMAIN arts = {} THEN 1 ELSE LargestOf(DOMAIN arts) + 1

add_article(arts, row) ==
    [a \in DOMAIN arts \cup {next_article_id(arts)} |->
        IF a \in DOMAIN arts THEN arts[a] ELSE row]

\* the unique constraints of Article.doi and Article.pmid (NULLs are free)
unique_identifiers(arts) ==
    \A a, b \in DOMAIN arts :
        a # b =>
            /\ arts[a].doi # NoIdentifier => arts[a].doi # arts[b].doi
            /\ arts[a].pmid # NoIdentifier => arts[a].pmid # arts[b].pmid

\* the state of an import: the rows of the session, the two counters, and
\* whether a flush has raised IntegrityError
ImportState(arts) ==
    [articles |-> arts, created |-> 0, updated |-> 0, failed |-> FALSE]

\* the body of the loop of parse_ris_entries with a fault: the existing
\* article is replaced by a freshly built one
ris_entry_rebuild(st, project_id, entry) ==
    IF entry.doi = NoIdentifier \/ ~ entry.title THEN st
    ELSE LET existing == {a \in DOMAIN st.articles :
                             st.articles[a].doi = entry.doi}
             row == [Article EXCEPT !.project_id = project_id,
                                    !.doi = entry.doi,
                                    !.pmid = entry.pmid]
         IN  IF existing # {}
             THEN [st EXCEPT
                     !.articles[CHOOSE x \in existing : TRUE] = row,
                     !.updated = @ + 1]
             ELSE [st EXCEPT !.articles = add_article(@, row),
                             !.created = @ + 1]

\* the body of the loop of parse_ris_entries: a record without DOI or
\* title is skipped; the article with the DOI, of whatever project, gets
\* the fields of the record that are not None, project_id among them;
\* without such an article a new one is added
ris_entry(st, project_id, entry) ==
    IF entry.doi = NoIdentifier \/ ~ entry.title THEN st
    ELSE LET existing == {a \in DOMAIN st.articles :
                             st.articles[a].doi = entry.doi}
         IN  IF existing # {}
             THEN LET a == CHOOSE x \in existing : TRUE
                  IN  [st EXCEPT
                         !.articles[a].project_id = project_id,
                         !.articles[a].pmid =
                             IF entry.pmid # NoIdentifier
                             THEN entry.pmid ELSE @,
                         !.updated = @ + 1]
             ELSE [st EXCEPT
                     !.articles =
                         add_article(@, [Article EXCEPT
                                            !.project_id = project_id,
                                            !.doi = entry.doi,
                                            !.pmid = entry.pmid]),
                     !.created = @ + 1]

\* the body of the loop of parse_pubmed_entries: a record without PMID or
\* title is skipped; the article of the project with the PMID, else the
\* one of the project with the DOI, gets the identifiers of the record;
\* without such an article a new one is added
pubmed_entry(st, project_id, entry) ==
    IF entry.pmid = NoIdentifier \/ ~ entry.title THEN st
    ELSE LET by_pmid == {a \in DOMAIN st.articles :
                            /\ st.articles[a].pmid = entry.pmid
                            /\ st.articles[a].project_id = project_id}
             by_doi == {a \in DOMAIN st.articles :
                           /\ entry.doi # NoIdentifier
                           /\ st.articles[a].doi = entry.doi
                           /\ st.articles[a].project_id = project_id}
             existing == IF by_pmid # {} THEN by_pmid ELSE by_doi
         IN  IF existing # {}
             THEN LET a == CHOOSE x \in existing : TRUE
                  IN  [st EXCEPT
                         !.articles[a].pmid = entry.pmid,
                         !.articles[a].doi =
                             IF entry.doi # NoIdentifier
                             THEN entry.doi ELSE @,
                         !.updated = @ + 1]
             ELSE [st EXCEPT
                     !.articles =
                         add_article(@, [Article EXCEPT
                                            !.project_id = project_id,
                                            !.doi = entry.doi,
                                            !.pmid = entry.pmid]),
                     !.created = @ + 1]

\* a flush (before the next query, or at the commit) raises IntegrityError
\* when the rows break a unique constraint
flush(st) ==
    IF unique_identifiers(st.articles) THEN st ELSE [st EXCEPT !.failed = TRUE]

RECURSIVE parse_ris_entries(_, _, _)
parse_ris_entries(st, project_id, entries) ==
    IF entries = << >> \/ st.failed THEN st
    ELSE parse_ris_entries(flush(ris_entry(st, project_id, Head(entries))),
                           project_id, Tail(entries))

RECURSIVE parse_pubmed_entries(_, _, _)
parse_pubmed_entries(st, project_id, entries) ==
    IF entries = << >> \/ st.failed THEN st
    ELSE parse_pubmed_entries(
             flush(pubmed_entry(st, project_id, Head(entries))),
             project_id, Tail(entries))

----------------------------------------------------------------------------
(* CriterionService *)

Orders == 0..MaxOrder

\* order = None in a payload
NoOrder == -1

\* CriterionCreate: type is required, order is an integer or None (an
\* absent order takes the default 0), is_active a flag
CriterionCreate ==
    [type : CriterionType, order : Orders \cup {NoOrder}, is_active : BOOLEAN]

\* CriterionUpdate after model_dump(exclude_unset, exclude_defaults,
\* exclude_none): a record of the fields the request has set
CriterionUpdate ==
    [is_active : BOOLEAN] \cup [order : Orders] \cup [type : CriterionType]

MaxOf(S) == CHOOSE x \in S : \A y \in S : y <= x

\* get_next_order: the first row of the project and type by descending
\* order, plus one; 0 without such a row
get_next_order(crit, project_id, criterion_type) ==
    LET rows == {c \in DOMAIN crit :
                    /\ crit[c].project_id = project_id
                    /\ crit[c].type = criterion_type}
    IN  IF rows = {} THEN 0
        ELSE MaxOf({crit[c].order : c \in rows}) + 1

\* the primary key of an inserted row
next_criterion_id(crit) ==
    IF DOMAIN crit = {} THEN 1 ELSE MaxOf(DOMAIN crit) + 1

\* the row create_criterion inserts
new_criterion(crit, project_id, data) ==
    Criterion(project_id, data.type,
              IF data.order = NoOrder \/ data.order = 0
              THEN get_next_order(crit, project_id, data.type)
              ELSE data.order,
              data.is_active)

cs_create_criterion(crit, project_id, data) ==
    [c \in DOMAIN crit \cup {next_criterion_id(crit)} |->
        IF c \in DOMAIN crit THEN crit[c]
        ELSE new_criterion(crit, project_id, data)]

\* sqlmodel_update: the fields of the payload replace those of the row
cs_update_criterion(crit, c, data) ==
    [crit EXCEPT ![c] =
        [f \in DOMAIN @ |-> IF f \in DOMAIN data THEN data[f] ELSE @[f]]]

cs_delete_criterion(crit, c) ==
    [d \in DOMAIN crit \ {c} |-> crit[d]]

\* reorder_criteria with a fault: the project of the row is not looked at
cs_reorder_criteria_any_project(crit, project_id, criterion_ids) ==
    [c \in DOMAIN crit |->
        IF \E i \in 1..Len(criterion_ids) : criterion_ids[i] = c
        THEN [crit[c] EXCEPT !.order =
                 MaxOf({i \in 1..Len(criterion_ids) :
                           criterion_ids[i] = c}) - 1]
        ELSE crit[c]]

\* reorder_criteria: the rows of the list that exist and belong to the
\* project get their (0-based) position as order, a later position
\* overwriting an earlier one
cs_reorder_criteria(crit, project_id, criterion_ids) ==
    [c \in DOMAIN crit |->
        IF /\ crit[c].project_id = project_id
           /\ \E i \in 1..Len(criterion_ids) : criterion_ids[i] = c
        THEN [crit[c] EXCEPT !.order =
                 MaxOf({i \in 1..Len(criterion_ids) :
                           criterion_ids[i] = c}) - 1]
        ELSE crit[c]]

\* get_criteria_for_project: the rows of the project ordered by type and
\* order.  The query fixes neither the order of two rows with equal type
\* and order nor which type the database sorts first, so the results it
\* can give are a set of sequences.
get_criteria_for_project(crit, project_id) ==
    LET rows == {c \in DOMAIN crit : crit[c].project_id = project_id}
        n == Cardinality(rows)
    IN  {s \in [1..n -> rows] :
            /\ \A i, j \in 1..n : i # j => s[i] # s[j]
            /\ \E rank \in [CriterionType -> 1..2] :
                  /\ rank["inclusion"] # rank["exclusion"]
                  /\ \A i, j \in 1..n :
                        i < j =>
                          \/ rank[crit[s[i]].type] < rank[crit[s[j]].type]
                          \/ /\ crit[s[i]].type = crit[s[j]].type
                             /\ crit[s[i]].order <= crit[s[j]].order}

\* get_criterion_by_id followed by
\* "if criterion is None or criterion.project_id != project_id"
get_criterion(crit, project_id, c) ==
    IF c \notin DOMAIN crit THEN "404"
    ELSE IF crit[c].project_id # project_id THEN "404"
    ELSE "ok"

----------------------------------------------------------------------------
(* AI screening *)

\* the active-criteria query with a fault: is_active is not looked at
active_criteria_any(crit, project_id) ==
    {c \in DOMAIN crit : crit[c].project_id = project_id}

\* the rows of CriterionService.get_active_criteria_for_project
active_criteria(crit, project_id) ==
    {c \in DOMAIN crit :
        crit[c].project_id = project_id /\ crit[c].is_active}

\* stage filters of run-ai: "none" stands for an absent filter
StageFilters == ScreeningStage \cup {"none"}

existing_ai_decision(log, a, stage) ==
    \E i \in 1..Len(log) :
        /\ log[i].article_id = a
        /\ log[i].source = "ai_agent"
        /\ log[i].stage = stage

\* eligible_articles with a fault: articles whose last AI check failed are
\* not queued again
eligible_articles_skip_errors(arts, log, project_id, stage) ==
    {a \in DOMAIN arts :
        /\ arts[a].project_id = project_id
        /\ arts[a].status \in {"screening", "full_text_retrieved"}
        /\ (stage # "none" => arts[a].current_stage = stage)
        /\ ~ existing_ai_decision(log, a, arts[a].current_stage)
        /\ arts[a].ai_check_status # "error"}

eligible_articles(arts, log, project_id, stage) ==
    {a \in DOMAIN arts :
        /\ arts[a].project_id = project_id
        /\ arts[a].status \in {"screening", "full_text_retrieved"}
        /\ (stage # "none" => arts[a].current_stage = stage)
        /\ ~ existing_ai_decision(log, a, arts[a].current_stage)}

\* outcomes of screening_agent.run: a result with a decision, or an exception
EvaluatorOutcomes ==
    [ok : {TRUE}, value : ScreeningDecisionType]
        \cup [ok : {FALSE}, value : EvaluatorErrors]

\* screen_article with a fault: the failure branch also records an
\* (uncertain) decision
screen_article_logs_on_error(arts, log, a, outcome, t, reviewer_id) ==
    IF outcome.ok
    THEN [articles |->
            [arts EXCEPT ![a].ai_check_status = "completed",
                         ![a].ai_check_result =
                             [kind |-> "decision", value |-> outcome.value],
                         ![a].last_ai_check = t],
          decisions |->
            Append(log,
                   ScreeningDecision(a, reviewer_id,
                       IF arts[a].full_text_retrieved
                       THEN "full_text" ELSE "title_abstract",
                       outcome.value, "ai_agent")),
          raised |-> FALSE]
    ELSE [articles |->
            [arts EXCEPT ![a].ai_check_status = "error",
                         ![a].ai_check_result =
                             [kind |-> "error", value |-> outcome.value],
                         ![a].last_ai_check = t],
          decisions |->
            Append(log,
                   ScreeningDecision(a, reviewer_id,
                       IF arts[a].full_text_retrieved
                       THEN "full_text" ELSE "title_abstract",
                       "uncertain", "ai_agent")),
          raised |-> TRUE]

\* screen_article: run the evaluator, then either log the decision and mark
\* the check completed, or mark the check failed and re-raise
screen_article(arts, log, a, outcome, t, reviewer_id) ==
    IF outcome.ok
    THEN [articles |->
            [arts EXCEPT ![a].ai_check_status = "completed",
                         ![a].ai_check_result =
                             [kind |-> "decision", value |-> outcome.value],
                         ![a].last_ai_check = t],
          decisions |->
            Append(log,
                   ScreeningDecision(a, reviewer_id,
                       IF arts[a].full_text_retrieved
                       THEN "full_text" ELSE "title_abstract",
                       outcome.value, "ai_agent")),
          raised |-> FALSE]
    ELSE [articles |->
            [arts EXCEPT ![a].ai_check_status = "error",
                         ![a].ai_check_result =
                             [kind |-> "error", value |-> outcome.value],
                         ![a].last_ai_check = t],
          decisions |-> log,
          raised |-> TRUE]

----------------------------------------------------------------------------
(* Budgets that keep the log and the clock within the bounds *)

RECURSIVE Queued(_)
Queued(bs) == IF bs = << >> THEN 0 ELSE Len(Head(bs)) + Queued(Tail(bs))

Logging(rs) == Cardinality({r \in Reqs : rs[r].pc = "read"})

DecisionBudget == MaxDecisions - Len(decisions) - Queued(batches) - Logging(reqs)

AiBudget == MaxAiChecks - now - Queued(batches)

Min(x, y) == IF x <= y THEN x ELSE y

Response(op, a, result, count, detail) ==
    [op |-> op, article |-> a, result |-> result, count |-> count,
     detail |-> detail]

IdleReq ==
    [pc |-> "idle", article |-> 0,
     data |-> [stage |-> "title_abstract", decision |-> "uncertain",
               source |-> "human"],
     decision_id |-> 0]

----------------------------------------------------------------------------
(* The WebSocket connection manager.  A dict is a function whose domain is  *)
(* the set of its keys.                                                    *)

\* the connections clients open to the endpoint
WebSockets == 1..MaxSockets

\* a connection that has not been opened yet
NoSocket == [user_id |-> 0, state |-> "none"]

\* f"user_{user_id}"
default_room(user_id) == "user_" \o ToString(user_id)

\* the room names a client can send
RoomNames == {default_room(u) : u \in Users} \cup {"test_room"}

\* ConnectionManager.__init__
ConnectionManager ==
    [active_connections |-> << >>, rooms |-> << >>, user_rooms |-> << >>]

\* d[k] = v
Put(d, k, v) == [x \in DOMAIN d \cup {k} |-> IF x = k THEN v ELSE d[x]]

\* del d[k]
Del(d, k) == [x \in DOMAIN d \ {k} |-> d[x]]

\* d.get(k, set())
GetSet(d, k) == IF k \in DOMAIN d THEN d[k] ELSE {}

get_user_rooms(m, user_id) == GetSet(m.user_rooms, user_id)

get_room_users(m, room_name) == GetSet(m.rooms, room_name)

join_room(m, user_id, room_name) ==
    [m EXCEPT
        !.rooms = Put(@, room_name, GetSet(@, room_name) \cup {user_id}),
        !.user_rooms = Put(@, user_id, GetSet(@, user_id) \cup {room_name})]

\* leave_room with a fault: a room that has become empty is kept
leave_room_keep_empty(m, user_id, room_name) ==
    [m EXCEPT
        !.rooms =
            IF room_name \in DOMAIN @ /\ user_id \in @[room_name]
            THEN [@ EXCEPT ![room_name] = @ \ {user_id}]
            ELSE @,
        !.user_rooms =
            IF user_id \in DOMAIN @ /\ room_name \in @[user_id]
            THEN [@ EXCEPT ![user_id] = @ \ {room_name}]
            ELSE @]

\* leave_room: the user is taken out of the room, a room left empty is
\* deleted; the room is taken out of the user's set, which is kept even
\* when it is left empty
leave_room(m, user_id, room_name) ==
    [m EXCEPT
        !.rooms =
            IF room_name \in DOMAIN @ /\ user_id \in @[room_name]
            THEN IF @[room_name] \ {user_id} = {}
                 THEN Del(@, room_name)
                 ELSE [@ EXCEPT ![room_name] = @ \ {user_id}]
            ELSE @,
        !.user_rooms =
            IF user_id \in DOMAIN @ /\ room_name \in @[user_id]
            THEN [@ EXCEPT ![user_id] = @ \ {room_name}]
            ELSE @]

\* "for room in list(self.user_rooms[user_id]): self.leave_room(...)"
RECURSIVE leave_rooms(_, _, _)
leave_rooms(m, user_id, room_names) ==
    IF room_names = {} THEN m
    ELSE LET room == CHOOSE r \in room_names : TRUE
         IN  leave_rooms(leave_room(m, user_id, room), user_id,
                         room_names \ {room})

\* connect: the socket replaces whatever socket the user had registered
connect(m, websocket, user_id) ==
    join_room([m EXCEPT !.active_connections = Put(@, user_id, websocket)],
              user_id, default_room(user_id))

disconnect(m, user_id) ==
    LET m1 == [m EXCEPT !.active_connections =
                   IF user_id \in DOMAIN @ THEN Del(@, user_id) ELSE @]
    IN  IF user_id \in DOMAIN m1.user_rooms
        THEN [leave_rooms(m1, user_id, m1.user_rooms[user_id])
                 EXCEPT !.user_rooms = Del(@, user_id)]
        ELSE m1

\* the sockets send_text is called on
send_personal_message(m, user_id) ==
    IF user_id \in DOMAIN m.active_connections
    THEN {m.active_connections[user_id]}
    ELSE {}

broadcast_to_room(m, room_name) ==
    IF room_name \in DOMAIN m.rooms
    THEN UNION {send_personal_message(m, u) : u \in m.rooms[room_name]}
    ELSE {}

broadcast_to_all(m) ==
    UNION {send_personal_message(m, u) : u \in DOMAIN m.active_connections}

----------------------------------------------------------------------------
\* the criteria of project 1: active inclusion criteria
InitialCriteria ==
    [c \in CriterionIds |-> Criterion(1, "inclusion", c - 1, TRUE)]

\* one active inclusion criterion for every project
ProjectCriteria == [p \in Projects |-> Criterion(p, "inclusion", 0, TRUE)]

Init ==
    /\ articles = [a \in ArticleIds |-> Article]
    /\ decisions = << >>
    /\ criteria = InitialCriteria
    /\ batches = << >>
    /\ now = 0
    /\ lastOp = Response("init", 0, "", 0, "")
    /\ reqs = [r \in Reqs |-> IdleReq]
    /\ events = << >>
    /\ manager = ConnectionManager
    /\ sockets = [ws \in WebSockets |-> NoSocket]


----------------------------------------------------------------------------
(* The checks every handler starts with.  Each returns the status of the   *)
(* HTTPException it raises, "ok" when it raises none.                      *)

verify_project_ownership(project_id, current_user) ==
    IF project_id \notin Projects THEN "404"
    ELSE IF owner_id(project_id) # current_user THEN "403"
    ELSE "ok"

\* the article lookup with a fault: the project of the row is not compared
get_article_any_project(arts, project_id, a) ==
    IF a \notin DOMAIN arts THEN "404" ELSE "ok"

\* get_article_by_id followed by
\* "if article is None or article.project_id != project_id"
get_article(arts, project_id, a) ==
    IF a \notin DOMAIN arts THEN "404"
    ELSE IF arts[a].project_id # project_id THEN "404"
    ELSE "ok"

\* both checks, in the order of the handlers addressed to one article
article_access(arts, current_user, project_id, a) ==
    IF verify_project_ownership(project_id, current_user) # "ok"
    THEN verify_project_ownership(project_id, current_user)
    ELSE get_article(arts, project_id, a)

----------------------------------------------------------------------------
(* Handlers, one action each (Spec) *)

\* POST /articles/{article_id}/decisions
create_decision(current_user, project_id, a, data) ==
    /\ IF article_access(articles, current_user, project_id, a) # "ok"
       THEN /\ lastOp' =
                 Response("create_decision", a,
                     article_access(articles, current_user, project_id, a),
                     0, "")
            /\ UNCHANGED <<articles, decisions>>
       ELSE /\ DecisionBudget >= 1
            /\ decisions' =
                 ss_create_decision(decisions, a, data,
                     IF data.source = "human"
                     THEN current_user ELSE NoReviewer)
            /\ articles' =
                 [articles EXCEPT ![a] =
                     update_article_status_from_decision(@, data.stage,
                                                         data.decision)]
            /\ lastOp' = Response("create_decision", a, "201", 0, "")
    /\ UNCHANGED <<criteria, batches, now, reqs, events, manager, sockets>>

\* POST /articles/start-screening
start_screening(current_user, project_id) ==
    /\ IF verify_project_ownership(project_id, current_user) # "ok"
       THEN /\ lastOp' =
                 Response("start_screening", 0,
                     verify_project_ownership(project_id, current_user),
                     0, "")
            /\ articles' = articles
       ELSE /\ articles' = start_screening_update(articles, project_id)
            /\ lastOp' =
                 Response("start_screening", 0, "200",
                     Cardinality(ImportedArticles(articles, project_id)), "")
    /\ UNCHANGED <<decisions, criteria, batches, now, reqs, events,
                 manager, sockets>>

\* POST /articles/{article_id}/fulltext/upload
upload_fulltext(current_user, project_id, a, is_pdf) ==
    /\ IF article_access(articles, current_user, project_id, a) # "ok"
       THEN /\ lastOp' =
                 Response("upload_fulltext", a,
                     article_access(articles, current_user, project_id, a),
                     0, "")
            /\ articles' = articles
       ELSE IF is_pdf
       THEN /\ articles' = [articles EXCEPT ![a] = set_full_text_retrieved(@)]
            /\ lastOp' = Response("upload_fulltext", a, "200", 0, "")
       ELSE /\ articles' = articles
            /\ lastOp' = Response("upload_fulltext", a, "400", 0, "")
    /\ UNCHANGED <<decisions, criteria, batches, now, reqs, events,
                 manager, sockets>>

----------------------------------------------------------------------------
(* Handlers of the import (projects router) *)

ImportResponse(op, project_id, result, created, updated) ==
    [op |-> op, project_id |-> project_id, result |-> result,
     articles_created |-> created, articles_updated |-> updated]

\* the response to an import that ended in state st, and the table it
\* leaves: get_prefect_session commits when the loop has ended and rolls
\* back when it has raised
\* fetch_raises: the request for the abstracts, which the PubMed flow
\* makes after the commit, raises
finish_import(op, project_id, st, fetch_raises) ==
    /\ Cardinality(DOMAIN st.articles) <= MaxArticles
    /\ IF st.failed
       THEN /\ articles' = articles
            /\ lastOp' = ImportResponse(op, project_id, "500", 0, 0)
       ELSE IF fetch_raises
       THEN /\ articles' = st.articles
            /\ lastOp' = ImportResponse(op, project_id, "500", 0, 0)
       ELSE /\ articles' = st.articles
            /\ lastOp' = ImportResponse(op, project_id, "200",
                                        st.created, st.updated)

\* POST /projects/{project_id}/upload/ris
upload_ris_file(current_user, project_id, valid_type, entries) ==
    /\ IF verify_project_ownership(project_id, current_user) # "ok"
       THEN /\ articles' = articles
            /\ lastOp' =
                 ImportResponse("upload_ris_file", project_id,
                     verify_project_ownership(project_id, current_user),
                     0, 0)
       ELSE IF ~ valid_type
       THEN /\ articles' = articles
            /\ lastOp' =
                 ImportResponse("upload_ris_file", project_id, "400", 0, 0)
       ELSE finish_import("upload_ris_file", project_id,
                parse_ris_entries(ImportState(articles), project_id,
                                  entries),
                FALSE)
    /\ UNCHANGED <<decisions, criteria, batches, now, reqs, events,
                 manager, sockets>>

\* POST /projects/{project_id}/upload/pubmed
upload_pubmed_file(current_user, project_id, valid_type, entries, fetch_raises) ==
    /\ IF verify_project_ownership(project_id, current_user) # "ok"
       THEN /\ articles' = articles
            /\ lastOp' =
                 ImportResponse("upload_pubmed_file", project_id,
                     verify_project_ownership(project_id, current_user),
                     0, 0)
       ELSE IF ~ valid_type
       THEN /\ articles' = articles
            /\ lastOp' =
                 ImportResponse("upload_pubmed_file", project_id, "400",
                                0, 0)
       ELSE finish_import("upload_pubmed_file", project_id,
                parse_pubmed_entries(ImportState(articles), project_id,
                                     entries),
                fetch_raises)
    /\ UNCHANGED <<decisions, criteria, batches, now, reqs, events,
                 manager, sockets>>

----------------------------------------------------------------------------
(* Handlers of the criteria router *)

CriterionResponse(op, c, result) ==
    [op |-> op, criterion |-> c, result |-> result]

\* both checks of a handler addressed to one criterion
criterion_access(crit, current_user, project_id, c) ==
    IF verify_project_ownership(project_id, current_user) # "ok"
    THEN verify_project_ownership(project_id, current_user)
    ELSE get_criterion(crit, project_id, c)

\* POST /criteria
create_criterion(current_user, project_id, data) ==
    /\ IF verify_project_ownership(project_id, current_user) # "ok"
       THEN /\ lastOp' =
                 CriterionResponse("create_criterion", 0,
                     verify_project_ownership(project_id, current_user))
            /\ criteria' = criteria
       ELSE /\ next_criterion_id(criteria) <= MaxCriteria
            /\ new_criterion(criteria, project_id, data).order <= MaxOrder
            /\ criteria' = cs_create_criterion(criteria, project_id, data)
            /\ lastOp' =
                 CriterionResponse("create_criterion",
                     next_criterion_id(criteria), "201")
    /\ UNCHANGED <<articles, decisions, batches, now, reqs, events,
                 manager, sockets>>

\* PATCH /criteria/{criterion_id}
update_criterion(current_user, project_id, c, data) ==
    /\ IF criterion_access(criteria, current_user, project_id, c) # "ok"
       THEN /\ lastOp' =
                 CriterionResponse("update_criterion", c,
                     criterion_access(criteria, current_user, project_id, c))
            /\ criteria' = criteria
       ELSE /\ criteria' = cs_update_criterion(criteria, c, data)
            /\ lastOp' = CriterionResponse("update_criterion", c, "200")
    /\ UNCHANGED <<articles, decisions, batches, now, reqs, events,
                 manager, sockets>>

\* DELETE /criteria/{criterion_id} with a fault: the AI decisions of the
\* project's articles go with the criterion
delete_criterion_cascade(current_user, project_id, c) ==
    /\ criterion_access(criteria, current_user, project_id, c) = "ok"
    /\ criteria' = cs_delete_criterion(criteria, c)
    /\ decisions' =
         SelectSeq(decisions,
             LAMBDA d : ~ (/\ d.source = "ai_agent"
                           /\ articles[d.article_id].project_id = project_id))
    /\ lastOp' = CriterionResponse("delete_criterion", c, "204")
    /\ UNCHANGED <<articles, batches, now, reqs, events, manager, sockets>>

\* DELETE /criteria/{criterion_id}
delete_criterion(current_user, project_id, c) ==
    /\ IF criterion_access(criteria, current_user, project_id, c) # "ok"
       THEN /\ lastOp' =
                 CriterionResponse("delete_criterion", c,
                     criterion_access(criteria, current_user, project_id, c))
            /\ criteria' = criteria
       ELSE /\ criteria' = cs_delete_criterion(criteria, c)
            /\ lastOp' = CriterionResponse("delete_criterion", c, "204")
    /\ UNCHANGED <<articles, decisions, batches, now, reqs, events,
                 manager, sockets>>

\* POST /criteria/reorder
reorder_criteria(current_user, project_id, criterion_ids) ==
    /\ IF verify_project_ownership(project_id, current_user) # "ok"
       THEN /\ lastOp' =
                 CriterionResponse("reorder_criteria", 0,
                     verify_project_ownership(project_id, current_user))
            /\ criteria' = criteria
       ELSE /\ criteria' =
                 cs_reorder_criteria(criteria, project_id, criterion_ids)
            /\ lastOp' = CriterionResponse("reorder_criteria", 0, "200")
    /\ UNCHANGED <<articles, decisions, batches, now, reqs, events,
                 manager, sockets>>

----------------------------------------------------------------------------
(* Handlers of AI screening *)

\* POST /articles/{article_id}/screen-ai
screen_article_with_ai(current_user, project_id, a, outcome) ==
    /\ IF article_access(articles, current_user, project_id, a) # "ok"
       THEN /\ lastOp' =
                 Response("screen_article_with_ai", a,
                     article_access(articles, current_user, project_id, a),
                     0, "")
            /\ UNCHANGED <<articles, decisions, now>>
       ELSE IF active_criteria(criteria, project_id) = {}
       THEN /\ lastOp' = Response("screen_article_with_ai", a, "400", 0, "")
            /\ UNCHANGED <<articles, decisions, now>>
       ELSE /\ AiBudget >= 1
            /\ outcome.ok => DecisionBudget >= 1
            /\ LET res == screen_article(articles, decisions, a, outcome,
                                         now + 1, NoReviewer)
               IN  /\ articles' = res.articles
                   /\ decisions' = res.decisions
                   /\ lastOp' =
                        IF res.raised
                        THEN Response("screen_article_with_ai", a, "500", 0,
                                      outcome.value)
                        ELSE Response("screen_article_with_ai", a, "200", 0,
                                      outcome.value)
            /\ now' = now + 1
    /\ UNCHANGED <<criteria, batches, reqs, events, manager, sockets>>

\* the orders in which a query without ORDER BY may return a set of rows
Orderings(S) ==
    {s \in [1..Cardinality(S) -> S] :
        \A i, j \in 1..Cardinality(S) : i # j => s[i] # s[j]}

\* the slice with a fault: one article more than the limit
apply_limit_one_more(s, limit) ==
    IF limit # 0 THEN SubSeq(s, 1, Min(limit + 1, Len(s))) ELSE s

\* limit = 0 stands for an absent limit
apply_limit(s, limit) ==
    IF limit # 0 THEN SubSeq(s, 1, Min(limit, Len(s))) ELSE s

\* POST /run-ai
run_batch_ai_screening(current_user, project_id, stage, limit) ==
    /\ IF verify_project_ownership(project_id, current_user) # "ok"
       THEN /\ lastOp' =
                 Response("run_batch_ai_screening", 0,
                     verify_project_ownership(project_id, current_user),
                     0, "")
            /\ batches' = batches
       ELSE IF active_criteria(criteria, project_id) = {}
       THEN /\ lastOp' = Response("run_batch_ai_screening", 0, "400", 0, "")
            /\ batches' = batches
       ELSE \E all_articles \in
                  Orderings(eligible_articles(articles, decisions,
                                              project_id, stage)) :
              LET article_ids == apply_limit(all_articles, limit)
              IN  IF Len(article_ids) = 0
                  THEN /\ lastOp' = Response("run_batch_ai_screening", 0,
                                             "200", 0, "")
                       /\ batches' = batches
                  ELSE /\ Len(batches) < MaxBatches
                       /\ Len(article_ids) <= Min(AiBudget, DecisionBudget)
                       /\ batches' = Append(batches, article_ids)
                       /\ lastOp' = Response("run_batch_ai_screening", 0,
                                             "200", Len(article_ids), "")
    /\ UNCHANGED <<articles, decisions, criteria, now, reqs, events,
                 manager, sockets>>

RemoveAt(s, i) == SubSeq(s, 1, i - 1) \o SubSeq(s, i + 1, Len(s))

\* ConnectionManager.broadcast_to_room sends to the members of the room one
\* after the other and catches nothing: the message reaches every member
\* ("delivered"), or a send raises after some members got it ("partial"), or
\* the first send raises ("failed")
BroadcastOutcomes == {"delivered", "partial", "failed"}

\* message of the exception a failed send raises
SendError == "send_failed"

\* a message handed to the room project_{project_id}
Event(type, project_id, article_id, detail) ==
    [type |-> type, room |-> project_id, article_id |-> article_id,
     detail |-> detail]

\* one iteration of the loop of _run_batch_ai_screening: screen the article
\* and send ai_screening_complete inside the try block; on any exception
\* send ai_screening_error from the except block.  An exception of the
\* second send leaves the loop.  (Articles are never deleted here, so the
\* fetch always finds the row.)
batch_iteration(arts, log, a, outcome, t, sent, error_sent) ==
    LET res == screen_article(arts, log, a, outcome, t, NoReviewer)
        failed == res.raised \/ sent # "delivered"
    IN  [articles |-> res.articles,
         decisions |-> res.decisions,
         events |->
            (IF ~ res.raised /\ sent # "failed"
             THEN <<Event("ai_screening_complete", arts[a].project_id, a,
                          outcome.value)>>
             ELSE << >>)
            \o
            (IF failed /\ error_sent # "failed"
             THEN <<Event("ai_screening_error", arts[a].project_id, a,
                          IF res.raised THEN outcome.value ELSE SendError)>>
             ELSE << >>),
         failed |-> failed,
         aborted |-> failed /\ error_sent # "delivered"]

\* the background task runs one iteration for the head of batch b
batch_ai_screening_step(b, outcome, sent, error_sent) ==
    /\ b \in 1..Len(batches)
    /\ LET a == Head(batches[b])
           res == batch_iteration(articles, decisions, a, outcome, now + 1,
                                  sent, error_sent)
       IN  /\ articles' = res.articles
           /\ decisions' = res.decisions
           /\ events' = events \o res.events
           /\ lastOp' =
                IF res.failed
                THEN Response("_run_batch_ai_screening", a,
                              "ai_screening_error", 0, outcome.value)
                ELSE Response("_run_batch_ai_screening", a,
                              "ai_screening_complete", 0, outcome.value)
           /\ batches' =
                IF res.aborted \/ Len(batches[b]) = 1
                THEN RemoveAt(batches, b)
                ELSE [batches EXCEPT ![b] = Tail(@)]
    /\ now' = now + 1
    /\ UNCHANGED <<criteria, reqs, manager, sockets>>

----------------------------------------------------------------------------
(* Read-only endpoints: they change nothing but the response *)

QueryResponse(op, project_id, stage, body) ==
    [op |-> op, project_id |-> project_id, stage |-> stage,
     result |-> "200", body |-> body]

\* GET /screening/next; the body is the id of the article, 0 for null
get_next_article(current_user, project_id, stage) ==
    /\ lastOp' =
         IF verify_project_ownership(project_id, current_user) # "ok"
         THEN Response("get_next_article", 0,
                  verify_project_ownership(project_id, current_user), 0, "")
         ELSE
         QueryResponse("get_next_article", project_id, stage,
             get_next_article_for_screening(articles, decisions, project_id,
                                            stage))
    /\ UNCHANGED <<articles, decisions, criteria, batches, now, reqs, events,
                 manager, sockets>>

\* GET /screening/stats
get_screening_stats(current_user, project_id) ==
    /\ lastOp' =
         IF verify_project_ownership(project_id, current_user) # "ok"
         THEN Response("get_screening_stats", 0,
                  verify_project_ownership(project_id, current_user), 0, "")
         ELSE
         QueryResponse("get_screening_stats", project_id, "",
             ss_get_screening_stats(articles, decisions, project_id))
    /\ UNCHANGED <<articles, decisions, criteria, batches, now, reqs, events,
                 manager, sockets>>

\* GET /articles/stats with a fault: the GROUP BY queries have no project
\* filter
article_stats_all_projects(arts, project_id) ==
    LET n(st) == Cardinality({a \in DOMAIN arts : arts[a].status = st})
    IN  [total |->
             Cardinality({a \in DOMAIN arts :
                             arts[a].project_id = project_id}),
         by_status |-> [st \in {x \in ArticleStatus : n(x) > 0} |-> n(st)],
         by_stage |-> stage_counts(arts, project_id)]

\* the body of GET /articles/stats
article_stats(arts, project_id) ==
    [total |->
         Cardinality({a \in DOMAIN arts : arts[a].project_id = project_id}),
     by_status |-> status_counts(arts, project_id),
     by_stage |-> stage_counts(arts, project_id)]

\* GET /articles/stats
get_article_stats(current_user, project_id) ==
    /\ lastOp' =
         IF verify_project_ownership(project_id, current_user) # "ok"
         THEN Response("get_article_stats", 0,
                  verify_project_ownership(project_id, current_user), 0, "")
         ELSE
         QueryResponse("get_article_stats", project_id, "",
             article_stats(articles, project_id))
    /\ UNCHANGED <<articles, decisions, criteria, batches, now, reqs, events,
                 manager, sockets>>

\* the screening handlers a reviewer drives
Next ==
    \/ \E a \in ArticleIds, data \in ScreeningDecisionCreate :
          create_decision(CurrentUserId, articles[a].project_id, a, data)
    \/ \E project_id \in Projects : start_screening(CurrentUserId, project_id)
    \/ \E a \in ArticleIds, is_pdf \in BOOLEAN :
          upload_fulltext(CurrentUserId, articles[a].project_id, a, is_pdf)

Spec == Init /\ [][Next]_vars

\* the same handlers together with criteria updates and AI screening
NextAI ==
    \/ \E a \in ArticleIds, data \in ScreeningDecisionCreate :
          create_decision(CurrentUserId, articles[a].project_id, a, data)
    \/ \E project_id \in Projects : start_screening(CurrentUserId, project_id)
    \/ \E a \in ArticleIds, is_pdf \in BOOLEAN :
          upload_fulltext(CurrentUserId, articles[a].project_id, a, is_pdf)
    \/ \E c \in CriterionIds, is_active \in BOOLEAN :
          update_criterion(CurrentUserId, criteria[c].project_id, c,
                           [is_active |-> is_active])
    \/ \E a \in ArticleIds, outcome \in EvaluatorOutcomes :
          screen_article_with_ai(CurrentUserId, articles[a].project_id, a,
                                 outcome)
    \/ \E project_id \in Projects, stage \in StageFilters,
             limit \in 0..NumArticles :
          run_batch_ai_screening(CurrentUserId, project_id, stage, limit)
    \/ \E b \in 1..MaxBatches, outcome \in EvaluatorOutcomes,
             sent, error_sent \in BroadcastOutcomes :
          batch_ai_screening_step(b, outcome, sent, error_sent)

SpecAI == Init /\ [][NextAI]_vars

----------------------------------------------------------------------------
(* create-decision requests step by step (SpecConc).  Every request has    *)
(* its own session: it loads the article, ScreeningService.create_decision *)
(* inserts the row and commits, then update_article_status_from_decision   *)
(* assigns the article's attributes and commits again.  The first commit   *)
(* expires the loaded article, so the second one writes exactly the        *)
(* attributes the transition assigns, on top of the row as it then is.     *)

\* routers.create_decision, lines 109-115: checks passed, article loaded
create_decision_read(r, a, data) ==
    /\ reqs[r].pc = "idle"
    /\ DecisionBudget >= 1
    /\ reqs' = [reqs EXCEPT ![r] =
                  [pc |-> "read", article |-> a, data |-> data,
                   decision_id |-> 0]]
    /\ UNCHANGED <<articles, decisions, criteria, batches, now, lastOp, events,
                 manager, sockets>>

\* routers.create_decision, line 117: the decision row is committed
create_decision_insert(r) ==
    /\ reqs[r].pc = "read"
    /\ decisions' =
         ss_create_decision(decisions, reqs[r].article, reqs[r].data,
             IF reqs[r].data.source = "human"
             THEN CurrentUserId ELSE NoReviewer)
    /\ reqs' = [reqs EXCEPT ![r].pc = "inserted",
                            ![r].decision_id = Len(decisions) + 1]
    /\ UNCHANGED <<articles, criteria, batches, now, lastOp, events,
                 manager, sockets>>

\* routers.create_decision, lines 120-124: the transition is committed
create_decision_update(r) ==
    /\ reqs[r].pc = "inserted"
    /\ articles' =
         [articles EXCEPT ![reqs[r].article] =
             update_article_status_from_decision(
                 @, reqs[r].data.stage, reqs[r].data.decision)]
    /\ reqs' = [reqs EXCEPT ![r].pc = "done"]
    /\ UNCHANGED <<decisions, criteria, batches, now, lastOp, events,
                 manager, sockets>>

\* the request dies with an exception (a database error, a lost connection)
\* before one of its two commits; nothing is rolled back that was committed
create_decision_fail(r) ==
    /\ reqs[r].pc \in {"read", "inserted"}
    /\ reqs' = [reqs EXCEPT ![r].pc = "failed"]
    /\ UNCHANGED <<articles, decisions, criteria, batches, now, lastOp, events,
                 manager, sockets>>

NextConc ==
    \/ \E r \in Reqs, a \in ArticleIds, data \in ScreeningDecisionCreate :
          create_decision_read(r, a, data)
    \/ \E r \in Reqs : create_decision_insert(r)
    \/ \E r \in Reqs : create_decision_update(r)
    \/ \E r \in Reqs : create_decision_fail(r)

SpecConc == Init /\ [][NextConc]_vars

----------------------------------------------------------------------------
(* A population of several articles spread over the projects.  The import  *)
(* creates every article with the model defaults in the project it was     *)
(* uploaded to.                                                            *)

PopulationIds == 1..PopulationSize

InitPopulation ==
    /\ articles \in
         [PopulationIds -> {[Article EXCEPT !.project_id = p] : p \in Projects}]
    /\ decisions = << >>
    /\ criteria = ProjectCriteria
    /\ batches = << >>
    /\ now = 0
    /\ lastOp = Response("init", 0, "", 0, "")
    /\ reqs = [r \in Reqs |-> IdleReq]
    /\ events = << >>
    /\ manager = ConnectionManager
    /\ sockets = [ws \in WebSockets |-> NoSocket]

----------------------------------------------------------------------------
(* Batch AI screening of a population (SpecBatch).  BackgroundTasks runs   *)
(* the task it was given after the response has been sent, and the loop    *)
(* goes on as long as no exception leaves it: an iteration that can be     *)
(* taken is eventually taken.                                              *)

BatchStep ==
    \E b \in 1..MaxBatches, outcome \in EvaluatorOutcomes,
       sent, error_sent \in BroadcastOutcomes :
        batch_ai_screening_step(b, outcome, sent, error_sent)

NextBatch ==
    \/ \E project_id \in Projects : start_screening(CurrentUserId, project_id)
    \/ \E project_id \in Projects, stage \in StageFilters,
          limit \in 0..PopulationSize :
          run_batch_ai_screening(CurrentUserId, project_id, stage, limit)
    \/ BatchStep

SpecBatch == InitPopulation /\ [][NextBatch]_vars /\ WF_vars(BatchStep)

----------------------------------------------------------------------------
(* Reviewers working on a population: decisions, start-screening, full     *)
(* text upload, the "next article" query and the statistics (SpecQueue)    *)

NextQueue ==
    \/ \E a \in PopulationIds, data \in ScreeningDecisionCreate :
          create_decision(CurrentUserId, articles[a].project_id, a, data)
    \/ \E project_id \in Projects : start_screening(CurrentUserId, project_id)
    \/ \E a \in PopulationIds, is_pdf \in BOOLEAN :
          upload_fulltext(CurrentUserId, articles[a].project_id, a, is_pdf)
    \/ \E project_id \in Projects, stage \in ScreeningStage :
          get_next_article(CurrentUserId, project_id, stage)
    \/ \E project_id \in Projects : get_screening_stats(CurrentUserId, project_id)
    \/ \E project_id \in Projects : get_article_stats(CurrentUserId, project_id)

SpecQueue == InitPopulation /\ [][NextQueue]_vars

----------------------------------------------------------------------------
(* The title/abstract pass of reviewers over a larger population, with the *)
(* screening statistics (SpecStats)                                        *)

StatsIds == 1..StatsPopulation

InitStats ==
    /\ articles \in
         [StatsIds -> {[Article EXCEPT !.project_id = p] : p \in Projects}]
    /\ decisions = << >>
    /\ criteria = ProjectCriteria
    /\ batches = << >>
    /\ now = 0
    /\ lastOp = Response("init", 0, "", 0, "")
    /\ reqs = [r \in Reqs |-> IdleReq]
    /\ events = << >>
    /\ manager = ConnectionManager
    /\ sockets = [ws \in WebSockets |-> NoSocket]

\* the payloads of a reviewer who includes or excludes at title_abstract
TitleAbstractVerdicts ==
    [stage : {"title_abstract"}, decision : {"include", "exclude"},
     source : {"human"}]

NextStats ==
    \/ \E project_id \in Projects : start_screening(CurrentUserId, project_id)
    \/ \E a \in StatsIds, data \in TitleAbstractVerdicts :
          create_decision(CurrentUserId, articles[a].project_id, a, data)
    \/ \E project_id \in Projects : get_screening_stats(CurrentUserId, project_id)

SpecStats == InitStats /\ [][NextStats]_vars


----------------------------------------------------------------------------
(* Properties of decision recording and of the transition (Spec) *)

Consistent(article) ==
    /\ (article.final_decision # "pending")
          <=> (article.current_stage = "completed")
    /\ (article.current_stage = "completed")
          <=> (article.status \in {"included", "excluded"})

\* C1: after every decision application each article satisfies
\* final_decision != pending <=> current_stage == completed
\* <=> status in {included, excluded}.
C1_StateTripleConsistent ==
    lastOp.op = "create_decision" =>
        \A a \in ArticleIds : Consistent(articles[a])

\* C2: a decision whose stage differs from the article's current_stage is
\* appended to the log, and leaves the article's status, current_stage and
\* final_decision as they were.
C2_MismatchedStageNotApplied ==
    [][lastOp'.op = "create_decision" =>
          LET a == lastOp'.article
          IN  /\ Len(decisions') = Len(decisions) + 1
              /\ SubSeq(decisions', 1, Len(decisions)) = decisions
              /\ Last(decisions').article_id = a
              /\ (Last(decisions').stage # articles[a].current_stage
                    => Core(articles'[a]) = Core(articles[a]))]_vars

\* C3: include at title_abstract always yields (awaiting_full_text,
\* full_text, pending), whatever the prior state of the article; exclude at
\* title_abstract always yields (excluded, completed, excluded).
C3_TitleAbstractOutcome ==
    (lastOp.op = "create_decision" /\ Last(decisions).stage = "title_abstract")
    => LET article == articles[lastOp.article]
       IN  /\ (Last(decisions).decision = "include"
                 => Core(article) =
                      <<"awaiting_full_text", "full_text", "pending">>)
           /\ (Last(decisions).decision = "exclude"
                 => Core(article) = <<"excluded", "completed", "excluded">>)

\* C4: include at full_text always yields (included, completed, included),
\* whatever the prior state of the article; exclude at full_text always
\* yields (excluded, completed, excluded).
C4_FullTextOutcome ==
    (lastOp.op = "create_decision" /\ Last(decisions).stage = "full_text")
    => LET article == articles[lastOp.article]
       IN  /\ (Last(decisions).decision = "include"
                 => Core(article) = <<"included", "completed", "included">>)
           /\ (Last(decisions).decision = "exclude"
                 => Core(article) = <<"excluded", "completed", "excluded">>)

\* an include at full_text has just been applied to an article that an
\* earlier title_abstract decision had excluded
C4_Witness ==
    /\ lastOp.op = "create_decision"
    /\ Len(decisions) = 2
    /\ decisions[1] =
         ScreeningDecision(lastOp.article, CurrentUserId, "title_abstract",
                           "exclude", "human")
    /\ decisions[2].article_id = lastOp.article
    /\ decisions[2].stage = "full_text"
    /\ decisions[2].decision = "include"
    /\ Core(articles[lastOp.article]) = <<"included", "completed", "included">>

PriorUncertain(log, a, stage) ==
    \E i \in 1..Len(log) :
        /\ log[i].article_id = a
        /\ log[i].stage = stage
        /\ log[i].decision = "uncertain"

IncludeRow(stage) ==
    IF stage = "title_abstract"
    THEN <<"awaiting_full_text", "full_text", "pending">>
    ELSE <<"included", "completed", "included">>

\* C5: an uncertain decision, at any stage and from any source, adds one log
\* entry and changes no article's status, current_stage or final_decision;
\* an include at the article's stage after an earlier uncertain at that stage
\* gives the result the transition table gives without the uncertain.
C5_UncertainIsNoOp ==
    [][lastOp'.op = "create_decision" =>
          LET a == lastOp'.article
              d == Last(decisions')
          IN  /\ (d.decision = "uncertain" =>
                    /\ decisions' = Append(decisions, d)
                    /\ d.article_id = a
                    /\ \A b \in ArticleIds :
                          Core(articles'[b]) = Core(articles[b]))
              /\ (/\ d.decision = "include"
                  /\ d.stage \in {"title_abstract", "full_text"}
                  /\ d.stage = articles[a].current_stage
                  /\ PriorUncertain(decisions, a, d.stage)
                  => Core(articles'[a]) = IncludeRow(d.stage))]_vars

\* an uncertain at title_abstract followed by an include at title_abstract
C5_Witness ==
    /\ lastOp.op = "create_decision"
    /\ Len(decisions) = 2
    /\ decisions[1].article_id = lastOp.article
    /\ decisions[1].stage = "title_abstract"
    /\ decisions[1].decision = "uncertain"
    /\ decisions[2].article_id = lastOp.article
    /\ decisions[2].stage = "title_abstract"
    /\ decisions[2].decision = "include"
    /\ Core(articles[lastOp.article]) =
         <<"awaiting_full_text", "full_text", "pending">>


\* C22: the reference lifecycle holds step by step: an article starts as
\* (imported, title_abstract, pending); start-screening gives (screening,
\* title_abstract, pending); include at title_abstract then gives
\* (awaiting_full_text, full_text, pending); marking the full text retrieved
\* then gives (full_text_retrieved, full_text, pending); exclude at full_text
\* then gives (excluded, completed, excluded).
C22_ReferenceLifecycle ==
    /\ \A a \in ArticleIds :
          Core(articles[a]) = <<"imported", "title_abstract", "pending">>
    /\ [][\A a \in ArticleIds :
            /\ (/\ start_screening(CurrentUserId, articles[a].project_id)
                /\ Core(articles[a]) =
                     <<"imported", "title_abstract", "pending">>)
               => Core(articles'[a]) =
                     <<"screening", "title_abstract", "pending">>
            /\ (/\ lastOp'.op = "create_decision"
                /\ lastOp'.article = a
                /\ Last(decisions').stage = "title_abstract"
                /\ Last(decisions').decision = "include"
                /\ Core(articles[a]) =
                     <<"screening", "title_abstract", "pending">>)
               => Core(articles'[a]) =
                     <<"awaiting_full_text", "full_text", "pending">>
            /\ (/\ lastOp'.op = "upload_fulltext"
                /\ lastOp'.result = "200"
                /\ lastOp'.article = a
                /\ Core(articles[a]) =
                     <<"awaiting_full_text", "full_text", "pending">>)
               => Core(articles'[a]) =
                     <<"full_text_retrieved", "full_text", "pending">>
            /\ (/\ lastOp'.op = "create_decision"
                /\ lastOp'.article = a
                /\ Last(decisions').stage = "full_text"
                /\ Last(decisions').decision = "exclude"
                /\ Core(articles[a]) =
                     <<"full_text_retrieved", "full_text", "pending">>)
               => Core(articles'[a]) =
                     <<"excluded", "completed", "excluded">>]_vars

\* the end of the reference lifecycle: included at title_abstract, full text
\* retrieved, excluded at full_text
C22_Witness ==
    /\ lastOp.op = "create_decision"
    /\ Len(decisions) = 2
    /\ decisions[1] =
         ScreeningDecision(lastOp.article, CurrentUserId, "title_abstract",
                           "include", "human")
    /\ decisions[2] =
         ScreeningDecision(lastOp.article, CurrentUserId, "full_text",
                           "exclude", "human")
    /\ articles[lastOp.article].full_text_retrieved
    /\ Core(articles[lastOp.article]) = <<"excluded", "completed", "excluded">>

StageRank(stage) ==
    CASE stage = "title_abstract" -> 1
      [] stage = "full_text" -> 2
      [] stage = "completed" -> 3

\* C29: completed is terminal: a decision of any stage and type on an article
\* whose current_stage is completed leaves its status, current_stage and
\* final_decision as they are, and no step moves the current_stage of an
\* article backwards in the order title_abstract, full_text, completed.
C29_CompletedIsTerminal ==
    [][/\ lastOp'.op = "create_decision" =>
            (articles[lastOp'.article].current_stage = "completed"
               => Core(articles'[lastOp'.article])
                    = Core(articles[lastOp'.article]))
       /\ \A a \in ArticleIds :
             StageRank(articles'[a].current_stage)
                >= StageRank(articles[a].current_stage)]_vars

HasInclude(log, a, stage) ==
    \E i \in 1..Len(log) :
        /\ log[i].article_id = a
        /\ log[i].stage = stage
        /\ log[i].decision = "include"

\* C30: an article with status included, or with final_decision included,
\* has an include decision at title_abstract and an include decision at
\* full_text in the log.
C30_IncludedPassedBothStages ==
    \A a \in ArticleIds :
        (articles[a].status = "included"
            \/ articles[a].final_decision = "included")
        => /\ HasInclude(decisions, a, "title_abstract")
           /\ HasInclude(decisions, a, "full_text")

----------------------------------------------------------------------------
(* Properties of concurrent and failing create-decision requests (SpecConc) *)

\* C6: recording a decision and applying its transition is one atomic unit:
\* after a create-decision request has failed, at whatever point, the log
\* holds no entry of that request.
C6_DecisionAndTransitionAtomic ==
    \A r \in Reqs :
        reqs[r].pc = "failed" => reqs[r].decision_id \notin 1..Len(decisions)

RECURSIVE Replay(_, _, _)
\* the article state the decisions of log for article a give, applied one
\* after the other in log order
Replay(log, a, article) ==
    IF log = << >>
    THEN article
    ELSE Replay(Tail(log), a,
                IF Head(log).article_id = a
                THEN update_article_status_from_decision(
                         article, Head(log).stage, Head(log).decision)
                ELSE article)

\* C7: concurrent create-decision requests for one article give the result of
\* running them one after the other, the transitions applied in the order in
\* which the decisions were logged.
C7_TransitionsInLogOrder ==
    (\A r \in Reqs : reqs[r].pc = "done") =>
        \A a \in ArticleIds :
            Core(articles[a]) = Core(Replay(decisions, a, Article))

----------------------------------------------------------------------------
(* Properties of AI screening (SpecAI) *)

AiOps == {"screen_article_with_ai", "_run_batch_ai_screening"}

\* C8: a successful AI evaluation logs exactly one decision with
\* source = ai_agent and reviewer_id = null, marks the check completed with
\* result and timestamp, and moves the article through the transition a
\* human decision of the same stage and type causes.
C8_AiDecisionIsRecordedAndApplied ==
    [][(lastOp'.op \in AiOps /\ lastOp'.detail \in ScreeningDecisionType) =>
          LET a == lastOp'.article
              d == Last(decisions')
          IN  /\ decisions' = Append(decisions, d)
              /\ d.article_id = a
              /\ d.source = "ai_agent"
              /\ d.reviewer_id = NoReviewer
              /\ d.decision = lastOp'.detail
              /\ articles'[a].ai_check_status = "completed"
              /\ articles'[a].ai_check_result =
                   [kind |-> "decision", value |-> d.decision]
              /\ articles'[a].last_ai_check = now'
              /\ Core(articles'[a]) =
                   Core(update_article_status_from_decision(
                            articles[a], d.stage, d.decision))]_vars

\* C9: when the evaluator raises, the article's ai_check_status becomes
\* error, ai_check_result holds the error message, last_ai_check is stamped,
\* no decision is created, no article's status, current_stage or
\* final_decision changes, and the caller gets the error.
C9_EvaluatorFailure ==
    [][(lastOp'.op \in AiOps /\ lastOp'.detail \in EvaluatorErrors) =>
          LET a == lastOp'.article
          IN  /\ lastOp'.result \in {"500", "ai_screening_error"}
              /\ articles'[a].ai_check_status = "error"
              /\ articles'[a].ai_check_result =
                   [kind |-> "error", value |-> lastOp'.detail]
              /\ articles'[a].last_ai_check = now'
              /\ articles'[a].last_ai_check > articles[a].last_ai_check
              /\ decisions' = decisions
              /\ \A b \in ArticleIds :
                    Core(articles'[b]) = Core(articles[b])]_vars

\* the evaluator has timed out on an article that has no decision
C9_Witness ==
    /\ lastOp.op \in AiOps
    /\ lastOp.detail = "timeout"
    /\ lastOp.result \in {"500", "ai_screening_error"}
    /\ articles[lastOp.article].ai_check_status = "error"
    /\ articles[lastOp.article].ai_check_result =
         [kind |-> "error", value |-> "timeout"]
    /\ articles[lastOp.article].last_ai_check = now
    /\ \A i \in 1..Len(decisions) : decisions[i].article_id # lastOp.article

\* C10: a failed AI screening leaves the article as eligible as it was: the
\* set of articles a run-ai request queues (with any stage filter) and the
\* article get_next_article_for_screening returns (for any stage) are the
\* same after the failed attempt as before it.
C10_FailedScreenKeepsEligibility ==
    [][(lastOp'.op \in AiOps /\ lastOp'.detail \in EvaluatorErrors) =>
          /\ \A p \in Projects, stage \in StageFilters :
                eligible_articles(articles', decisions', p, stage) =
                    eligible_articles(articles, decisions, p, stage)
          /\ \A p \in Projects, stage \in ScreeningStage :
                get_next_article_for_screening(articles', decisions', p,
                                               stage) =
                    get_next_article_for_screening(articles, decisions, p,
                                                   stage)
      ]_vars

\* an article whose last AI check failed has been queued again by run-ai and
\* is the next article to screen
C10_Witness ==
    /\ lastOp.op = "run_batch_ai_screening"
    /\ lastOp.count >= 1
    /\ \E b \in 1..Len(batches) :
          \E i \in 1..Len(batches[b]) :
              LET a == batches[b][i]
              IN  /\ articles[a].ai_check_status = "error"
                  /\ articles[a].last_ai_check >= 1
                  /\ get_next_article_for_screening(
                         articles, decisions, articles[a].project_id,
                         articles[a].current_stage) = a

\* the steps that are specified to add a decision: a create-decision request
\* that passed its checks, an AI evaluation that returned a decision
LoggingStep(op) ==
    \/ op.op = "create_decision" /\ op.result = "201"
    \/ op.op \in AiOps /\ op.detail \in ScreeningDecisionType

\* C13: the decision log is append-only: a successful create-decision and a
\* successful AI screening add exactly one entry, for the article of the
\* request, and every step of every handler (screening, criteria,
\* start-screening, full text) keeps the existing entries as they are.
C13_DecisionLogAppendOnly ==
    [][/\ Len(decisions') >= Len(decisions)
       /\ SubSeq(decisions', 1, Len(decisions)) = decisions
       /\ IF LoggingStep(lastOp')
          THEN /\ Len(decisions') = Len(decisions) + 1
               /\ Last(decisions').article_id = lastOp'.article
          ELSE decisions' = decisions]_vars

\* an article holds two decisions at one stage, the AI's and then a
\* reviewer's
C13_Witness ==
    /\ lastOp.op = "create_decision"
    /\ Len(decisions) = 2
    /\ decisions[1].article_id = decisions[2].article_id
    /\ decisions[1].stage = decisions[2].stage
    /\ decisions[1].source = "ai_agent"
    /\ decisions[2].source = "human"

NoActiveCriterion(p) ==
    ~ \E c \in DOMAIN criteria :
          criteria[c].project_id = p /\ criteria[c].is_active

\* the request was answered 400 and nothing was screened or queued
RejectedBeforeEvaluation ==
    /\ lastOp'.result = "400"
    /\ articles' = articles
    /\ decisions' = decisions
    /\ batches' = batches
    /\ now' = now

\* C23: a single-article AI screen and a run-ai request for a project
\* without an active criterion are answered 400 before any evaluation:
\* no article is queued, no decision is created, no field of an article
\* changes.  Criteria that exist but are inactive count for nothing.
C23_NoActiveCriterionRejects ==
    [][/\ lastOp'.op = "screen_article_with_ai" =>
            \A a \in ArticleIds, outcome \in EvaluatorOutcomes :
               (/\ NoActiveCriterion(articles[a].project_id)
                /\ screen_article_with_ai(CurrentUserId,
                       articles[a].project_id, a, outcome))
               => RejectedBeforeEvaluation
       /\ lastOp'.op = "run_batch_ai_screening" =>
            \A p \in Projects, stage \in StageFilters,
               limit \in 0..NumArticles :
               (/\ NoActiveCriterion(p)
                /\ run_batch_ai_screening(CurrentUserId, p, stage, limit))
               => RejectedBeforeEvaluation]_vars

\* the AI screen of an article was refused while the only criterion of its
\* project was inactive, after the article had been decided on
C23_Witness ==
    /\ lastOp.op = "screen_article_with_ai"
    /\ lastOp.result = "400"
    /\ \E c \in DOMAIN criteria :
          /\ criteria[c].project_id = articles[lastOp.article].project_id
          /\ ~ criteria[c].is_active
    /\ Len(decisions) >= 1
    /\ articles[lastOp.article].ai_check_status = "pending"

----------------------------------------------------------------------------
(* Properties of the batch task (SpecBatch) *)

InQueue(a) ==
    \E b \in 1..Len(batches) :
        \E i \in 1..Len(batches[b]) : batches[b][i] = a

\* C11: batch AI screening treats each queued article independently: a
\* failure while one article is processed (the evaluator raises, or sending
\* its notification raises) leaves the rest of the queue in place, and every
\* queued article is eventually evaluated, the head of the queue first.
C11_BatchEvaluatesEveryQueuedArticle ==
    /\ [][lastOp'.op = "_run_batch_ai_screening" =>
            \E b \in 1..Len(batches) :
                /\ Head(batches[b]) = lastOp'.article
                /\ articles'[lastOp'.article].last_ai_check = now'
                /\ batches' =
                     IF Len(batches[b]) = 1
                     THEN RemoveAt(batches, b)
                     ELSE [batches EXCEPT ![b] = Tail(@)]]_vars
    /\ \A a \in PopulationIds, t \in 0..MaxAiChecks :
          (InQueue(a) /\ articles[a].last_ai_check = t)
              ~> (articles[a].last_ai_check > t)

\* C12: every evaluation of a batch is followed by exactly one event in the
\* room of the project, about the evaluated article: ai_screening_complete
\* with the decision when a decision was created for the article, otherwise
\* ai_screening_error with the error; the events follow the processing
\* order.
C12_OneEventPerEvaluation ==
    [][lastOp'.op = "_run_batch_ai_screening" =>
          LET a == lastOp'.article
          IN  /\ Len(events') = Len(events) + 1
              /\ SubSeq(events', 1, Len(events)) = events
              /\ Last(events').article_id = a
              /\ Last(events').room = articles[a].project_id
              /\ IF decisions' # decisions
                 THEN /\ Last(events').type = "ai_screening_complete"
                      /\ Last(events').detail = Last(decisions').decision
                 ELSE /\ Last(events').type = "ai_screening_error"
                      /\ Last(events').detail = lastOp'.detail]_vars

----------------------------------------------------------------------------
(* Properties of the "next article" query (SpecQueue) *)

HasDecisionAt(log, a, stage) ==
    \E i \in 1..Len(log) : log[i].article_id = a /\ log[i].stage = stage

C15_NextIsSmallestEligible ==
    [][/\ lastOp'.op = "get_next_article" =>
            LET eligible == NextCandidates(articles, decisions,
                                lastOp'.project_id, lastOp'.stage)
            IN  /\ lastOp'.result = "200"
                /\ (eligible = {} <=> lastOp'.body = 0)
                /\ (eligible # {} =>
                      /\ lastOp'.body \in eligible
                      /\ \A b \in eligible : lastOp'.body <= b)
       /\ (/\ lastOp.op = "get_next_article"
           /\ lastOp.body # 0
           /\ lastOp'.op = "create_decision"
           /\ lastOp'.article = lastOp.body
           /\ Last(decisions').stage = lastOp.stage
           /\ Last(decisions').decision \in {"include", "exclude"})
          => NextCandidates(articles', decisions', lastOp.project_id,
                            lastOp.stage)
               = NextCandidates(articles, decisions, lastOp.project_id,
                                lastOp.stage) \ {lastOp.body}]_vars

\* the queue of a project with two articles is exhausted: article 1 was
\* decided first, article 2 second, and the query now returns null
C15_Witness ==
    /\ lastOp.op = "get_next_article"
    /\ lastOp.stage = "title_abstract"
    /\ lastOp.body = 0
    /\ \A a \in PopulationIds :
          articles[a].project_id = lastOp.project_id
    /\ Len(decisions) = 2
    /\ decisions[1].article_id = 1
    /\ decisions[2].article_id = 2
    /\ \A i \in 1..2 :
          /\ decisions[i].stage = "title_abstract"
          /\ decisions[i].decision \in {"include", "exclude"}

C17_UncertainKeepsArticleInQueue ==
    [][(/\ lastOp'.op = "create_decision"
        /\ lastOp'.result = "201"
        /\ Last(decisions').decision = "uncertain")
       => LET a == lastOp'.article
              stage == Last(decisions').stage
          IN  a \in NextCandidates(articles, decisions,
                                   articles[a].project_id, stage)
              => a \in NextCandidates(articles', decisions',
                                      articles[a].project_id, stage)]_vars

----------------------------------------------------------------------------
(* Properties of the statistics (SpecQueue) *)

RECURSIVE SumOver(_, _)
\* the sum of the values of f over the keys in S
SumOver(f, S) ==
    IF S = {}
    THEN 0
    ELSE LET x == CHOOSE y \in S : TRUE
         IN  f[x] + SumOver(f, S \ {x})

ProjectArticles(p) == {a \in DOMAIN articles : articles[a].project_id = p}

\* C18: the per-status counters of get_screening_stats (included, excluded,
\* awaiting_screening, awaiting_full_text, uncertain) sum to total_articles.
C18_StatusCountersSumToTotal ==
    lastOp.op = "get_screening_stats" =>
        lastOp.body.included + lastOp.body.excluded
            + lastOp.body.awaiting_screening
            + lastOp.body.awaiting_full_text + lastOp.body.uncertain
          = lastOp.body.total_articles

\* C19: in the article statistics of a project the by_status counts sum to
\* total, the by_stage counts sum to total, total is the number of articles
\* of the project, and the count of every status and of every stage is the
\* number of the project's articles that have it (a status or stage without
\* an entry has none).
C19_ArticleStatsPartitionTotal ==
    lastOp.op = "get_article_stats" =>
        LET body == lastOp.body
            mine == ProjectArticles(lastOp.project_id)
        IN  /\ body.total = Cardinality(mine)
            /\ SumOver(body.by_status, DOMAIN body.by_status) = body.total
            /\ SumOver(body.by_stage, DOMAIN body.by_stage) = body.total
            /\ DOMAIN body.by_status \subseteq ArticleStatus
            /\ DOMAIN body.by_stage \subseteq ScreeningStage
            /\ \A st \in ArticleStatus :
                  (IF st \in DOMAIN body.by_status
                   THEN body.by_status[st] ELSE 0)
                    = Cardinality({a \in mine : articles[a].status = st})
            /\ \A sg \in ScreeningStage :
                  (IF sg \in DOMAIN body.by_stage
                   THEN body.by_stage[sg] ELSE 0)
                    = Cardinality({a \in mine :
                                      articles[a].current_stage = sg})

\* the statistics of a project whose two articles differ in status and in
\* stage
C19_Witness ==
    /\ lastOp.op = "get_article_stats"
    /\ lastOp.body.total = 2
    /\ lastOp.body.by_status =
         [st \in {"excluded", "awaiting_full_text"} |-> 1]
    /\ lastOp.body.by_stage = [sg \in {"completed", "full_text"} |-> 1]

\* C20: screened_title_abstract and screened_full_text are the numbers of
\* distinct articles of the project with at least one decision at
\* title_abstract and at full_text: several decisions on an article count
\* once, decisions on articles of other projects do not count, and the
\* current stage of the article plays no part.
C20_ScreenedCountsDistinctArticles ==
    lastOp.op = "get_screening_stats" =>
        LET mine == ProjectArticles(lastOp.project_id)
        IN  /\ lastOp.body.screened_title_abstract =
                 Cardinality({a \in mine :
                     HasDecisionAt(decisions, a, "title_abstract")})
            /\ lastOp.body.screened_full_text =
                 Cardinality({a \in mine :
                     HasDecisionAt(decisions, a, "full_text")})

\* an article with two decisions at title_abstract, the second an include
\* that moved it to full_text, counts once
C20_Witness ==
    /\ lastOp.op = "get_screening_stats"
    /\ Len(decisions) = 2
    /\ \A i \in 1..2 :
          /\ decisions[i].stage = "title_abstract"
          /\ decisions[i].article_id = 1
    /\ decisions[2].decision = "include"
    /\ articles[1].project_id = lastOp.project_id
    /\ articles[1].current_stage = "full_text"
    /\ lastOp.body.screened_title_abstract = 1
    /\ lastOp.body.screened_full_text = 0

----------------------------------------------------------------------------
(* Properties of start-screening (SpecQueue) *)

\* C26: start_screening(project) sets status = screening on exactly the
\* articles of the project whose status is imported and returns their
\* number; their other fields, the articles with another status and the
\* articles of other projects stay as they are; a second call right after it
\* returns 0 and changes nothing.
C26_StartScreeningMovesImportedOnly ==
    [][\A p \in Projects :
          start_screening(CurrentUserId, p) =>
              LET moved == {a \in DOMAIN articles :
                               /\ articles[a].project_id = p
                               /\ articles[a].status = "imported"}
              IN  /\ lastOp'.count = Cardinality(moved)
                  /\ \A a \in DOMAIN articles :
                        articles'[a] =
                            IF a \in moved
                            THEN [articles[a] EXCEPT !.status = "screening"]
                            ELSE articles[a]
                  /\ decisions' = decisions
                  /\ Cardinality(ImportedArticles(articles', p)) = 0
                  /\ start_screening_update(articles', p) = articles']_vars

\* start-screening has moved the article of one project while the imported
\* article of the other project stays imported
C26_Witness ==
    /\ lastOp.op = "start_screening"
    /\ lastOp.count = 1
    /\ \E a, b \in DOMAIN articles :
          /\ articles[a].status = "screening"
          /\ articles[b].status = "imported"
          /\ articles[a].project_id # articles[b].project_id

----------------------------------------------------------------------------
(* Properties of the statistics during the title/abstract pass (SpecStats) *)

\* the decisions logged for the articles of project p
ProjectRows(p) ==
    {k \in 1..Len(decisions) : decisions[k].article_id \in ProjectArticles(p)}

\* C21: in a project of n articles that were all in status screening, after
\* i include and e exclude decisions at title_abstract on i + e distinct
\* articles, get_screening_stats reports total_articles = n,
\* screened_title_abstract = i + e, excluded = e, awaiting_full_text = i and
\* awaiting_screening = n - i - e.
C21_StatsAfterTitleAbstractPass ==
    lastOp.op = "get_screening_stats" =>
        LET p == lastOp.project_id
            mine == ProjectArticles(p)
            rows == ProjectRows(p)
            n == Cardinality(mine)
            i == Cardinality({k \in rows : decisions[k].decision = "include"})
            e == Cardinality({k \in rows : decisions[k].decision = "exclude"})
        IN  (/\ \A a \in mine :
                   \/ articles[a].status = "screening"
                   \/ HasDecisionAt(decisions, a, "title_abstract")
             /\ \A k \in rows :
                   /\ decisions[k].stage = "title_abstract"
                   /\ decisions[k].decision \in {"include", "exclude"}
             /\ \A k, l \in rows :
                   k # l => decisions[k].article_id # decisions[l].article_id)
            => /\ lastOp.body.total_articles = n
               /\ lastOp.body.screened_title_abstract = i + e
               /\ lastOp.body.excluded = e
               /\ lastOp.body.awaiting_full_text = i
               /\ lastOp.body.awaiting_screening = n - i - e

\* three articles of one project, one included and one excluded at
\* title_abstract, one still waiting
C21_Witness ==
    /\ lastOp.op = "get_screening_stats"
    /\ Cardinality(ProjectArticles(lastOp.project_id)) = 3
    /\ Len(decisions) = 2
    /\ decisions[1].article_id # decisions[2].article_id
    /\ decisions[1].decision = "include"
    /\ decisions[2].decision = "exclude"
    /\ lastOp.body.total_articles = 3
    /\ lastOp.body.screened_title_abstract = 2
    /\ lastOp.body.excluded = 1
    /\ lastOp.body.awaiting_full_text = 1
    /\ lastOp.body.awaiting_screening = 1

----------------------------------------------------------------------------
(* Requests that fail their checks (SpecAccess).  Any user asks for any    *)
(* project and any article, among them a project and an article that do    *)
(* not exist; the one article of Init belongs to project 1.  The          *)
(* reviewers give title/abstract verdicts.                                 *)

RequestProjects == 1..(NumProjects + 1)

RequestArticles == 1..(NumArticles + 1)

NextAccess ==
    \/ \E u \in Users, p \in RequestProjects, a \in RequestArticles,
          data \in TitleAbstractVerdicts :
          create_decision(u, p, a, data)
    \/ \E u \in Users, p \in RequestProjects : start_screening(u, p)
    \/ \E u \in Users, p \in RequestProjects, a \in RequestArticles,
          outcome \in EvaluatorOutcomes :
          screen_article_with_ai(u, p, a, outcome)

SpecAccess == Init /\ [][NextAccess]_vars

\* a screening request addressed to article a of project p by user u
ScreeningRequest(u, p, a) ==
    \/ \E data \in TitleAbstractVerdicts : create_decision(u, p, a, data)
    \/ \E outcome \in EvaluatorOutcomes :
          screen_article_with_ai(u, p, a, outcome)

\* the step logs nothing and leaves the three core fields of every article
NothingChanges ==
    /\ decisions' = decisions
    /\ DOMAIN articles' = DOMAIN articles
    /\ \A b \in DOMAIN articles : Core(articles'[b]) = Core(articles[b])

\* C24: a screening request for a missing project is answered 404, one by
\* a user who does not own the project 403, one for an article that does
\* not exist or belongs to another project 404; in each case no decision
\* is logged and no article's status, current_stage or final_decision
\* changes.  A request that passes the three checks gets none of these
\* answers from them.
C24_FailedChecksChangeNothing ==
    [][\A u \in Users, p \in RequestProjects, a \in RequestArticles :
          ScreeningRequest(u, p, a) =>
            LET missing_project == p \notin Projects
                not_owner == ~ missing_project /\ owner_id(p) # u
                no_article ==
                    \/ a \notin DOMAIN articles
                    \/ a \in DOMAIN articles /\ articles[a].project_id # p
            IN  /\ missing_project =>
                     lastOp'.result = "404" /\ NothingChanges
                /\ not_owner =>
                     lastOp'.result = "403" /\ NothingChanges
                /\ ~ missing_project /\ ~ not_owner /\ no_article =>
                     lastOp'.result = "404" /\ NothingChanges
                /\ ~ missing_project /\ ~ not_owner /\ ~ no_article =>
                     lastOp'.result \notin {"403", "404"}]_vars

\* a decision request for the existing article was refused with 404 after
\* a decision had moved the article on
C24_Witness ==
    /\ lastOp.op = "create_decision"
    /\ lastOp.article = 1
    /\ lastOp.result = "404"
    /\ Len(decisions) >= 1
    /\ articles[1].status = "awaiting_full_text"

----------------------------------------------------------------------------
(* Criteria edited while screening goes on (SpecCriteria).  The owner      *)
(* creates, updates, reorders and deletes criteria of both projects, while *)
(* screening of project 1 is started, a reviewer gives title/abstract     *)
(* verdicts on the article of Init and a batch screens it.                 *)

CriterionIdRange == 1..MaxCriteria

\* the lists a reorder request can carry
CriterionIdLists ==
    UNION {[1..n -> CriterionIdRange] : n \in 0..MaxCriteria}

NextCriteria ==
    \/ \E p \in Projects, data \in CriterionCreate :
          create_criterion(CurrentUserId, p, data)
    \/ \E p \in Projects, c \in CriterionIdRange, data \in CriterionUpdate :
          update_criterion(CurrentUserId, p, c, data)
    \/ \E p \in Projects, c \in CriterionIdRange :
          delete_criterion(CurrentUserId, p, c)
    \/ \E p \in Projects, criterion_ids \in CriterionIdLists :
          reorder_criteria(CurrentUserId, p, criterion_ids)
    \/ \E p \in Projects : start_screening(CurrentUserId, p)
    \/ \E a \in ArticleIds, data \in TitleAbstractVerdicts :
          create_decision(CurrentUserId, articles[a].project_id, a, data)
    \/ \E p \in Projects :
          run_batch_ai_screening(CurrentUserId, p, "none", 0)
    \/ \E b \in 1..MaxBatches, outcome \in EvaluatorOutcomes :
          batch_ai_screening_step(b, outcome, "delivered", "delivered")

SpecCriteria == Init /\ [][NextCriteria]_vars

\* the orders of the criteria of project p and type t
OrdersOf(p, t) ==
    {criteria[d].order :
        d \in {e \in DOMAIN criteria :
                  criteria[e].project_id = p /\ criteria[e].type = t}}

\* C27: a criterion created without an order gets 1 + the largest order of
\* the criteria of the same project and type, 0 when there is none; a
\* criterion created with an order keeps the order of the request.
C27_CreateAssignsOrder ==
    [][(lastOp'.op = "create_criterion" /\ lastOp'.result = "201") =>
          \A p \in Projects, data \in CriterionCreate :
             create_criterion(CurrentUserId, p, data) =>
                criteria'[lastOp'.criterion].order =
                    IF data.order # NoOrder THEN data.order
                    ELSE IF OrdersOf(p, data.type) = {} THEN 0
                    ELSE MaxOf(OrdersOf(p, data.type)) + 1]_vars

CriterionOps ==
    {"create_criterion", "update_criterion", "delete_criterion",
     "reorder_criteria"}

\* C28: a step of the criteria router (create, update, deactivate, reorder,
\* delete) leaves the decision log as it is and leaves status,
\* current_stage and final_decision of every article, whether decisions
\* exist or a batch is in progress.
C28_CriteriaEditsKeepDecisions ==
    [][lastOp'.op \in CriterionOps =>
          /\ decisions' = decisions
          /\ \A a \in DOMAIN articles :
                Core(articles'[a]) = Core(articles[a])]_vars

\* the only criterion was deleted while a decision was in the log, the
\* article had been included at title/abstract and a batch was queued
C28_Witness ==
    /\ lastOp.op = "delete_criterion"
    /\ lastOp.result = "204"
    /\ DOMAIN criteria = {}
    /\ Len(decisions) >= 1
    /\ batches # << >>
    /\ articles[1].status = "awaiting_full_text"

----------------------------------------------------------------------------
(* Further properties of the "next article" query (SpecQueue) *)

\* C31: the article get_next_article_for_screening(project, stage) returns
\* has current_stage equal to the requested stage and final_decision
\* pending.
C31_NextArticleIsAtStageAndPending ==
    (lastOp.op = "get_next_article" /\ lastOp.body # 0) =>
        /\ articles[lastOp.body].current_stage = lastOp.stage
        /\ articles[lastOp.body].final_decision = "pending"

----------------------------------------------------------------------------
(* Properties of the run-ai request (SpecBatch) *)

\* the articles of project p a run-ai request with this stage filter is to
\* queue
ToQueue(p, stage) ==
    {a \in DOMAIN articles :
        /\ articles[a].project_id = p
        /\ articles[a].status \in {"screening", "full_text_retrieved"}
        /\ (stage # "none" => articles[a].current_stage = stage)
        /\ ~ \E i \in 1..Len(decisions) :
               /\ decisions[i].article_id = a
               /\ decisions[i].source = "ai_agent"
               /\ decisions[i].stage = articles[a].current_stage}

\* C32: a run-ai request of a project with an active criterion queues the
\* articles of the project in status screening or full_text_retrieved, at
\* the stage of the filter when there is one, without an ai_agent decision
\* at their current_stage: all of them without a limit, `limit` of them
\* (all when there are fewer) with a limit.  article_count is the number
\* queued, and a batch is scheduled only when that number is not 0.
C32_RunAiQueuesEligibleArticles ==
    [][lastOp'.op = "run_batch_ai_screening" =>
          \A p \in Projects, stage \in StageFilters,
             limit \in 0..PopulationSize :
             (/\ ~ NoActiveCriterion(p)
              /\ run_batch_ai_screening(CurrentUserId, p, stage, limit))
             =>
             LET n == IF limit = 0 THEN Cardinality(ToQueue(p, stage))
                      ELSE Min(limit, Cardinality(ToQueue(p, stage)))
             IN  /\ lastOp'.result = "200"
                 /\ lastOp'.count = n
                 /\ n = 0 => batches' = batches
                 /\ n > 0 =>
                      /\ Len(batches') = Len(batches) + 1
                      /\ SubSeq(batches', 1, Len(batches)) = batches
                      /\ Len(Last(batches')) = n
                      /\ \A i \in 1..n :
                            Last(batches')[i] \in ToQueue(p, stage)
                      /\ \A i, j \in 1..n :
                            i # j => Last(batches')[i] # Last(batches')[j]]_vars

\* a request with limit 1 queued one of the two articles of the project
\* that were to be screened
C32_Witness ==
    /\ lastOp.op = "run_batch_ai_screening"
    /\ lastOp.count = 1
    /\ Len(batches) = 1
    /\ Len(batches[1]) = 1
    /\ articles[1].project_id = articles[2].project_id
    /\ articles[1].status = "screening"
    /\ articles[2].status = "screening"
    /\ decisions = << >>

----------------------------------------------------------------------------
(* Properties of successive AI screenings (SpecAI) *)

\* the last step screened its article successfully
ScreenedByAi ==
    \/ lastOp.op = "screen_article_with_ai" /\ lastOp.result = "200"
    \/ /\ lastOp.op = "_run_batch_ai_screening"
       /\ lastOp.result = "ai_screening_complete"

\* C33: a run-ai request that directly follows the successful AI screening
\* of an article (so that status and current_stage of the article are what
\* they were when it was screened) does not queue that article again.
C33_ScreenedArticleNotQueuedAgain ==
    [][(/\ ScreenedByAi
        /\ lastOp'.op = "run_batch_ai_screening"
        /\ lastOp'.result = "200"
        /\ lastOp'.count > 0)
       => \A i \in 1..Len(Last(batches')) :
             Last(batches')[i] # lastOp.article]_vars

----------------------------------------------------------------------------
(* Imports between the steps of screening (SpecImport).  The table starts  *)
(* empty; the owner imports RIS and PubMed files into both projects,       *)
(* starts screening and gives title/abstract verdicts.                     *)

InitImport ==
    /\ articles = << >>
    /\ decisions = << >>
    /\ criteria = ProjectCriteria
    /\ batches = << >>
    /\ now = 0
    /\ lastOp = Response("init", 0, "", 0, "")
    /\ reqs = [r \in Reqs |-> IdleReq]
    /\ events = << >>
    /\ manager = ConnectionManager
    /\ sockets = [ws \in WebSockets |-> NoSocket]

NextImport ==
    \/ \E p \in Projects, entries \in Files :
          upload_ris_file(CurrentUserId, p, TRUE, entries)
    \/ \E p \in Projects : upload_ris_file(CurrentUserId, p, FALSE, << >>)
    \/ \E p \in Projects, fetch_raises \in BOOLEAN, entries \in Files :
          upload_pubmed_file(CurrentUserId, p, TRUE, entries, fetch_raises)
    \/ \E p \in Projects :
          upload_pubmed_file(CurrentUserId, p, FALSE, << >>, FALSE)
    \/ \E p \in Projects : start_screening(CurrentUserId, p)
    \/ \E a \in DOMAIN articles, data \in TitleAbstractVerdicts :
          create_decision(CurrentUserId, articles[a].project_id, a, data)

SpecImport == InitImport /\ [][NextImport]_vars

ImportOps == {"upload_ris_file", "upload_pubmed_file"}

\* the record has a title and carries the PMID or the DOI of an article of
\* project p
MatchesArticleOf(p, entry) ==
    /\ entry.title
    /\ \E a \in DOMAIN articles :
          /\ articles[a].project_id = p
          /\ \/ entry.pmid # NoIdentifier /\ articles[a].pmid = entry.pmid
             \/ entry.doi # NoIdentifier /\ articles[a].doi = entry.doi

\* the outcome st of importing one record that matches an article: when
\* the import has not failed, no article is created, none is counted as
\* created, the record is counted as updated when it carries the identifier
\* key of the format, and the core fields of every article are kept
ReimportOutcome(st, key) ==
    ~ st.failed =>
        /\ DOMAIN st.articles = DOMAIN articles
        /\ st.created = 0
        /\ key # NoIdentifier => st.updated = 1
        /\ \A a \in DOMAIN articles :
              Core(st.articles[a]) = Core(articles[a])

C35_ImportKeepsProjectOfArticles ==
    [][lastOp'.op \in ImportOps =>
          \A a \in DOMAIN articles :
             /\ a \in DOMAIN articles'
             /\ articles'[a].project_id = articles[a].project_id
             /\ articles[a].project_id # lastOp'.project_id
                   => articles'[a] = articles[a]]_vars

----------------------------------------------------------------------------
(* The uncertain counter of the statistics (SpecQueue) *)

\* the articles of project p with an uncertain decision at the stage
UncertainAt(p, stage) ==
    {a \in DOMAIN articles :
        /\ articles[a].project_id = p
        /\ \E i \in 1..Len(decisions) :
              /\ decisions[i].article_id = a
              /\ decisions[i].stage = stage
              /\ decisions[i].decision = "uncertain"}

\* C37: the uncertain counter of get_screening_stats is 0 whatever the log
\* holds; the articles with an uncertain decision are counted in
\* screened_title_abstract and screened_full_text.
C37_UncertainCounterIsZero ==
    (lastOp.op = "get_screening_stats" /\ lastOp.result = "200") =>
        /\ lastOp.body.uncertain = 0
        /\ lastOp.body.screened_title_abstract >=
              Cardinality(UncertainAt(lastOp.project_id, "title_abstract"))
        /\ lastOp.body.screened_full_text >=
              Cardinality(UncertainAt(lastOp.project_id, "full_text"))

\* the statistics of a project were read with two uncertain decisions on
\* two of its articles in the log
C37_Witness ==
    /\ lastOp.op = "get_screening_stats"
    /\ Len(decisions) = 2
    /\ decisions[1].decision = "uncertain"
    /\ decisions[2].decision = "uncertain"
    /\ decisions[1].article_id # decisions[2].article_id
    /\ Cardinality(UncertainAt(lastOp.project_id, "title_abstract")) = 2
    /\ lastOp.body.uncertain = 0
    /\ lastOp.body.screened_title_abstract = 2

----------------------------------------------------------------------------
(* Reordering criteria (SpecCriteria) *)

\* the 0-based positions at which criterion c stands in the list
PositionsOf(criterion_ids, c) ==
    {i - 1 : i \in {j \in 1..Len(criterion_ids) : criterion_ids[j] = c}}

\* the rows of project p that the list names
ListedOf(crit, p, criterion_ids) ==
    {c \in DOMAIN crit :
        crit[c].project_id = p /\ PositionsOf(criterion_ids, c) # {}}

\* c stands before d in the sequence s
Before(s, c, d) ==
    \E i, j \in 1..Len(s) : i < j /\ s[i] = c /\ s[j] = d

\* what a reorder of project p with the list has done to the table crit
ReorderOutcome(crit, after, p, criterion_ids) ==
    /\ DOMAIN after = DOMAIN crit
    /\ \A c \in ListedOf(crit, p, criterion_ids) :
          /\ after[c].order \in PositionsOf(criterion_ids, c)
          /\ after[c].order = MaxOf(PositionsOf(criterion_ids, c))
          /\ after[c] = [crit[c] EXCEPT !.order = after[c].order]
    /\ \A c \in DOMAIN crit \ ListedOf(crit, p, criterion_ids) :
          after[c] = crit[c]
    /\ \A s \in get_criteria_for_project(after, p) :
          \A c, d \in ListedOf(crit, p, criterion_ids) :
             /\ after[c].type = after[d].type
             /\ MaxOf(PositionsOf(criterion_ids, c))
                  < MaxOf(PositionsOf(criterion_ids, d))
             => Before(s, c, d)

\* C36: a reorder of a project with a list of ids gives every listed
\* criterion of the project the 0-based position at which the list names it
\* as its order (the last one when the list names it more than once),
\* changes nothing else of it, leaves the criteria that are not listed or
\* belong to another project as they were, and afterwards the listing of
\* the project returns the listed criteria of one type in the listed order.
C36_ReorderSetsOrderToPosition ==
    /\ [](\A p \in Projects, criterion_ids \in CriterionIdLists :
            ReorderOutcome(criteria,
                cs_reorder_criteria(criteria, p, criterion_ids),
                p, criterion_ids))
    /\ [][lastOp'.op = "reorder_criteria" /\ lastOp'.result = "200" =>
            \E p \in Projects, criterion_ids \in CriterionIdLists :
               criteria' = cs_reorder_criteria(criteria, p, criterion_ids)]_vars

\* a reorder has reversed the two criteria of project 1, which are of one
\* type, and the listing returns the second before the first
C36_Witness ==
    /\ lastOp.op = "reorder_criteria"
    /\ lastOp.result = "200"
    /\ DOMAIN criteria = {1, 2}
    /\ criteria[1].project_id = 1
    /\ criteria[2].project_id = 1
    /\ criteria[1].type = criteria[2].type
    /\ criteria[2].order = 0
    /\ criteria[1].order = 1
    /\ get_criteria_for_project(criteria, 1) = {<<2, 1>>}

----------------------------------------------------------------------------
(* The WebSocket endpoint (SpecWebSocket).  Clients open connections with  *)
(* the token of a user or a token that is not valid, send messages of      *)
(* every type, and close; a user may have several connections open.  A     *)
(* step is what the endpoint runs between two receives.                    *)

\* no user for the token
NoUser == 0

\* message.room is None or empty
NoRoom == ""

\* the messages a client sends; "invalid" is a text that does not validate
WebSocketMessage ==
    [type : {"text", "broadcast", "info", "invalid"}, room : {NoRoom}]
    \cup [type : {"join_room", "leave_room", "room_message"},
          room : RoomNames \cup {NoRoom}]

\* what a step of the endpoint did: sent is the set of sockets it called
\* send_text on
WsResponse(op, websocket, user_id, type, room, sent) ==
    [op |-> op, websocket |-> websocket, user_id |-> user_id, type |-> type,
     room |-> room, sent |-> sent]

\* websocket_endpoint up to its first receive
websocket_endpoint_connect(websocket, user) ==
    /\ sockets[websocket].state = "none"
    /\ IF user = NoUser
       THEN /\ sockets' = [sockets EXCEPT ![websocket].state = "closed"]
            /\ manager' = manager
            /\ lastOp' = WsResponse("connect", websocket, user, "close",
                                    NoRoom, {})
       ELSE /\ sockets' = [sockets EXCEPT ![websocket] =
                              [user_id |-> user, state |-> "open"]]
            /\ manager' = connect(manager, websocket, user)
            /\ lastOp' = WsResponse("connect", websocket, user, "info",
                                    NoRoom, {websocket})
    /\ UNCHANGED <<articles, decisions, criteria, batches, now, reqs, events>>

\* one round of the endpoint's loop: a message is received and handled
websocket_endpoint_receive(websocket, message) ==
    /\ sockets[websocket].state = "open"
    /\ LET user_id == sockets[websocket].user_id
           needs_room == message.type \in
                            {"join_room", "leave_room", "room_message"}
       IN  IF needs_room /\ message.room = NoRoom
           THEN /\ manager' = manager
                /\ lastOp' = WsResponse("receive", websocket, user_id,
                       "error", NoRoom,
                       send_personal_message(manager, user_id))
           ELSE IF message.type = "join_room"
           THEN /\ manager' = join_room(manager, user_id, message.room)
                /\ lastOp' = WsResponse("receive", websocket, user_id,
                       "join_room", message.room,
                       send_personal_message(manager', user_id))
           ELSE IF message.type = "leave_room"
           THEN /\ manager' = leave_room(manager, user_id, message.room)
                /\ lastOp' = WsResponse("receive", websocket, user_id,
                       "leave_room", message.room,
                       send_personal_message(manager', user_id))
           ELSE IF message.type = "room_message"
           THEN /\ manager' = manager
                /\ lastOp' = WsResponse("receive", websocket, user_id,
                       "room_message", message.room,
                       broadcast_to_room(manager, message.room))
           ELSE IF message.type = "broadcast"
           THEN /\ manager' = manager
                /\ lastOp' = WsResponse("receive", websocket, user_id,
                       "broadcast", NoRoom, broadcast_to_all(manager))
           ELSE IF message.type = "text"
           THEN /\ manager' = manager
                /\ lastOp' = WsResponse("receive", websocket, user_id,
                       "text", NoRoom,
                       send_personal_message(manager, user_id))
           ELSE /\ manager' = manager
                /\ lastOp' = WsResponse("receive", websocket, user_id,
                       "error", NoRoom,
                       send_personal_message(manager, user_id))
    /\ UNCHANGED <<articles, decisions, criteria, batches, now, reqs, events,
                   sockets>>

\* the client closes: receive_text raises WebSocketDisconnect
websocket_endpoint_disconnect(websocket) ==
    /\ sockets[websocket].state = "open"
    /\ manager' = disconnect(manager, sockets[websocket].user_id)
    /\ sockets' = [sockets EXCEPT ![websocket].state = "closed"]
    /\ lastOp' = WsResponse("disconnect", websocket,
                            sockets[websocket].user_id, "close", NoRoom, {})
    /\ UNCHANGED <<articles, decisions, criteria, batches, now, reqs, events>>

NextWebSocket ==
    \/ \E websocket \in WebSockets, user \in Users \cup {NoUser} :
          websocket_endpoint_connect(websocket, user)
    \/ \E websocket \in WebSockets, message \in WebSocketMessage :
          websocket_endpoint_receive(websocket, message)
    \/ \E websocket \in WebSockets :
          websocket_endpoint_disconnect(websocket)

SpecWebSocket == Init /\ [][NextWebSocket]_vars

\* the users and the room names the registry holds somewhere
RegistryUsers ==
    DOMAIN manager.user_rooms
      \cup UNION {manager.rooms[r] : r \in DOMAIN manager.rooms}

RegistryRooms ==
    DOMAIN manager.rooms
      \cup UNION {manager.user_rooms[u] : u \in DOMAIN manager.user_rooms}

\* rooms and user_rooms name the same memberships, no room is empty
RegistryConsistent(m) ==
    /\ \A u \in Users, r \in RoomNames :
          u \in get_room_users(m, r) <=> r \in get_user_rooms(m, u)
    /\ \A r \in DOMAIN m.rooms : m.rooms[r] # {}

\* the registry holds only the users and room names of the model
RegistryInv ==
    /\ RegistryConsistent(manager)
    /\ RegistryUsers \subseteq Users
    /\ RegistryRooms \subseteq RoomNames

\* the memberships and the registration of user v are the same in m and n
SameMemberships(m, n, v) ==
    /\ \A r \in RoomNames :
          v \in get_room_users(m, r) <=> v \in get_room_users(n, r)
    /\ v \in DOMAIN m.user_rooms <=> v \in DOMAIN n.user_rooms
    /\ get_user_rooms(m, v) = get_user_rooms(n, v)
    /\ send_personal_message(m, v) = send_personal_message(n, v)

\* C38: under every sequence of connect, join_room, leave_room and
\* disconnect the registry is consistent: a user is in rooms[r] exactly when
\* r is in user_rooms of the user, and no room with an empty member set is
\* kept; a connect puts the user in room user_{id}; after a disconnect the
\* user is in no room, has no user_rooms entry and no active connection,
\* and the memberships of the other users are what they were.
C38_RoomRegistryConsistent ==
    /\ [](RegistryInv)
    /\ [][lastOp'.op = "connect" /\ lastOp'.user_id # NoUser =>
            LET u == lastOp'.user_id
            IN  /\ u \in get_room_users(manager', default_room(u))
                /\ default_room(u) \in get_user_rooms(manager', u)
                /\ send_personal_message(manager', u) = {lastOp'.websocket}
                /\ \A v \in Users \ {u} :
                      SameMemberships(manager, manager', v)]_vars
    /\ [][lastOp'.op = "disconnect" =>
            LET u == lastOp'.user_id
            IN  /\ \A r \in RoomNames : u \notin get_room_users(manager', r)
                /\ u \notin DOMAIN manager'.user_rooms
                /\ u \notin DOMAIN manager'.active_connections
                /\ \A v \in Users \ {u} :
                      SameMemberships(manager, manager', v)]_vars

\* user 1 has disconnected and is nowhere in the registry; user 2, who had
\* joined the room of user 1 and another room, is still a member of both
\* and still connected
C38_Witness ==
    /\ lastOp.op = "disconnect"
    /\ lastOp.user_id = 1
    /\ 1 \notin RegistryUsers
    /\ get_user_rooms(manager, 2) = {"user_1", "user_2", "test_room"}
    /\ get_room_users(manager, "user_1") = {2}
    /\ 2 \in DOMAIN manager.active_connections

\* the open connections of user u
OpenSockets(u) ==
    {ws \in WebSockets : sockets[ws] = [user_id |-> u, state |-> "open"]}

\* C39: a user with an open connection is registered in active_connections
\* and is a member of the rooms they joined: when one of two connections of
\* a user closes, the connection that stays open still receives personal,
\* room and broadcast messages.
C39_OpenConnectionStaysRegistered ==
    [][\A u \in Users :
          /\ lastOp'.op = "disconnect"
          /\ lastOp'.user_id = u
          /\ OpenSockets(u)' # {}
          => /\ u \in DOMAIN manager'.active_connections
             /\ send_personal_message(manager', u) \cap OpenSockets(u)' # {}
             /\ broadcast_to_all(manager') \cap OpenSockets(u)' # {}
             /\ get_user_rooms(manager', u) = get_user_rooms(manager, u)
             /\ \A r \in get_user_rooms(manager, u) :
                   broadcast_to_room(manager', r) \cap OpenSockets(u)' # {}]_vars

============================================================================
